---- MODULE Spec2Model ----
(***************************************************************************)
(* Audio-feature pipeline: the in-memory broker (mocks/rabbitmq.py), the   *)
(* two stages (mocks/algorithm_a.py, mocks/algorithm_b.py) and the         *)
(* idempotent writer (mocks/data_writer.py).                               *)
(*                                                                         *)
(* Granularity.  The classes guard their shared maps with threading.Lock   *)
(* and the server runs the pipeline and the HTTP surface on different      *)
(* threads, so the atomic steps are: one `with self._lock:` block, and one *)
(* call of an asyncio.Queue primitive (put_nowait / get_nowait).  Code     *)
(* between two such steps that touches only the caller's locals is folded  *)
(* into the step before it.  Every interleaving the cooperative asyncio    *)
(* scheduler can produce is one of the interleavings of these steps.       *)
(*                                                                         *)
(* uuid.uuid4() is modelled as a fresh value drawn from the counter        *)
(* next_uuid.  Variables after `calls` are history (ghost) variables: the  *)
(* code has no such fields, they record what happened so that the          *)
(* properties can speak about it.                                          *)
(***************************************************************************)
EXTENDS Integers, Sequences, FiniteSets, TLC

VARIABLES
    work_queues,        \* InMemoryBroker._work_queues: queue name -> pending messages
    fanout,             \* InMemoryBroker._fanout: topic -> list of subscriber inboxes
    inbox,              \* the asyncio.Queue objects handed out by subscribe_fanout, by id
    a_processed_count,  \* AlgorithmA.processed_count, one instance per pod thread
    b_inbox,            \* AlgorithmB._inbox (inbox id, 0 before construction)
    b_processed_count,  \* AlgorithmB.processed_count
    writer_inboxes,     \* DataWriter._inbox_a, _inbox_b (ids, <<0, 0>> before construction)
    db,                 \* DataWriter.db
    real_fanout_queues, \* RealBroker._fanout_queues: the exclusive queues it tracks
    pg_features,        \* PostgreSQLDatabase: the rows of table `features`
    rate_tracker,       \* rest_api._rate_tracker: per client, its requests within the window
    api_inboxes,        \* rest_api: <<_inbox_a, _inbox_b>> of the app, as indexes into inbox
    cache,              \* rest_api._cache: the feature messages received, oldest first
    pc,                 \* per thread: where it stands
    loc,                \* per thread: the locals of the call it is in
    res,                \* per thread: outcome of the last call that returned or raised
    next_uuid,          \* source of uuid.uuid4()
    calls,              \* ghost: number of top-level calls made, per operation, the
                        \*        sum of the values flush has returned, and per queue
                        \*        the number of puts and gets at the last purge_all
    wlog,               \* ghost: per work queue, the messages put on it, in put order
    clog,               \* ghost: per work queue, <<caller, message>> for every message returned
    pubs,               \* ghost: one record per publish_fanout call, in snapshot order
    ihist,              \* ghost: per inbox id, topic, registration time, deliveries, gets
    write_log,          \* ghost: one record per _write call
    flog                \* ghost: per stage thread, messages consumed / rejected

vars == <<work_queues, fanout, inbox, a_processed_count, b_inbox, b_processed_count,
          writer_inboxes, db, pc, loc, res, next_uuid, calls, wlog, clog, pubs, ihist,
          write_log, real_fanout_queues, pg_features, rate_tracker, api_inboxes, cache,
          flog>>

brokerVars == <<work_queues, fanout, inbox>>
apiVars    == <<rate_tracker, api_inboxes, cache>>
stageVars  == <<a_processed_count, b_inbox, b_processed_count>>
writerVars == <<writer_inboxes, db>>

----------------------------------------------------------------------------
(* Bounds of the model (not program constants). *)

MaxWorkPub == 3
MaxFanoutPub == 2
MaxInbox == 4
MaxProbes == 2
MaxWrite == 2
MaxFlush == 2
MaxStageAudio == 2
MaxPipeAudio == 2
MaxPurge == 1
MaxPurgeWork == 2
MaxProcessCalls == 2
MaxDrains == 1
MaxMistyped == 1

(* Named queue / topic constants, mocks/rabbitmq.py lines 22-24. *)
AUDIO_STREAM == "audio_stream"
FEATURES_A == "features_a"
FEATURES_B == "features_b"

(* Threads of control.  Pods own one AlgorithmA instance each. *)
Threads == {"t1", "t2", "t3"}
Pods == {"t1", "t2"}

(* Python's None. *)
None == [none |-> TRUE]

(* The fixed timestamps and payloads the inputs are drawn from. *)
GoodTimestamp == "2024-01-15T10:00:00+00:00"
ZTimestamp == "2024-01-15T10:00:00Z"
BadTimestamp == "not-a-timestamp"
EarlyTimestamp == "2024-01-15T09:00:00+00:00"
LateTimestamp == "2024-01-15T11:00:00+00:00"
NaiveTimestamp == "2024-01-15T10:30:00"
GoodAudio == "dGVzdGF1ZGlvZGF0YQ=="
OddAudio == "a"
NoisyAudio == "!!"

(* A field whose value is Python's None (a key that is present). *)
NoneValue == "<None>"

----------------------------------------------------------------------------
(* Messages are Python dicts: functions from the keys present to values.   *)

HasKey(m, k) == k \in DOMAIN m

(* The audio messages a producer can put on a work queue.  "valid" is what *)
(* Sensor.publish_audio and make_audio_message build; "missing" is the     *)
(* malformed message of the resilience test (no timestamp, no audio_data); *)
(* "empty_audio" and "bad_timestamp" are publish_audio(audio_data="") and  *)
(* publish_audio(timestamp=<unparsable>).                                  *)
AudioKinds == {"valid", "valid_z", "missing", "empty_audio", "bad_timestamp"}

AudioMessage(kind, id) ==
    CASE kind = "valid" ->
           [message_id |-> id, sensor_id |-> "sensor-01",
            timestamp |-> GoodTimestamp, audio_data |-> GoodAudio]
      [] kind = "valid_z" ->
           [message_id |-> id, sensor_id |-> "sensor-02",
            timestamp |-> ZTimestamp, audio_data |-> GoodAudio]
      [] kind = "missing" ->
           [message_id |-> id, sensor_id |-> "sensor-01"]
      [] kind = "empty_audio" ->
           [message_id |-> id, sensor_id |-> "sensor-01",
            timestamp |-> GoodTimestamp, audio_data |-> ""]
      [] kind = "bad_timestamp" ->
           [message_id |-> id, sensor_id |-> "sensor-01",
            timestamp |-> BadTimestamp, audio_data |-> GoodAudio]

(* datetime.fromisoformat(ts.replace("Z", "+00:00")) succeeds: decided on  *)
(* the timestamps the inputs use.  None has no .replace (AttributeError),  *)
(* which _validate catches like ValueError.                                *)
ReplaceZ(ts) == IF ts = ZTimestamp THEN GoodTimestamp ELSE ts

FromIsoFormat(ts) == ts \in {GoodTimestamp, EarlyTimestamp, LateTimestamp, NaiveTimestamp}

(* The instant a parsable timestamp denotes, in minutes of 2024-01-15 UTC  *)
(* (what datetime.fromisoformat and PostgreSQL's TIMESTAMPTZ compare).     *)
Instant(ts) ==
    CASE ReplaceZ(ts) = EarlyTimestamp -> 540
      [] ReplaceZ(ts) = GoodTimestamp -> 600
      [] ReplaceZ(ts) = LateTimestamp -> 660

(* Python's order on str (by code point), as the position of the string    *)
(* among the strings in use: "" < "2024-01-15T09..." < "...T10:00:00+00:00" *)
(* < "...T10:00:00Z" < "...T11..." < "not-a-timestamp" ('+' sorts before    *)
(* 'Z', digits before letters).                                            *)
StrRank(x) ==
    CASE x = "" -> 0
      [] x = EarlyTimestamp -> 1
      [] x = GoodTimestamp -> 2
      [] x = ZTimestamp -> 3
      [] x = LateTimestamp -> 4
      [] x = BadTimestamp -> 5

ParsesAsIso(ts) == FromIsoFormat(ReplaceZ(ts))

(* algorithm_a._REQUIRED_FIELDS and algorithm_a._validate: "ok", or the    *)
(* exception raised.                                                       *)
A_REQUIRED_FIELDS == {"message_id", "sensor_id", "timestamp", "audio_data"}

AValidate(message) ==
    IF A_REQUIRED_FIELDS \ DOMAIN message # {} THEN "ValueError"
    ELSE IF message.audio_data \in {"", NoneValue} THEN "ValueError"
    ELSE IF ~ParsesAsIso(message.timestamp) THEN "ValueError"
    ELSE "ok"

(* algorithm_a._extract_features: seed = sum(base64 bytes) % 1000, every   *)
(* feature is a function of the seed; the payload is represented by its    *)
(* spectral_centroid = 440 + seed.  The seed of GoodAudio is 388.          *)
AudioSeed(audio_data) == IF audio_data = GoodAudio THEN 388 ELSE 0

ExtractFeatures(audio_data) == [spectral_centroid |-> 440 + AudioSeed(audio_data)]

(* base64.b64decode(audio_data + "==") in _extract_features (line 41):     *)
(* characters outside the base64 alphabet are dropped, and binascii.Error  *)
(* (a ValueError) is raised when the number of data characters left is 1   *)
(* more than a multiple of 4; the two pad characters appended cover the    *)
(* other remainders.  Decided on the payloads the inputs use.              *)
B64DataChars(audio_data) ==
    CASE audio_data = GoodAudio -> 18
      [] audio_data = OddAudio -> 1
      [] OTHER -> 0

B64DecodesAlways(audio_data) == TRUE

B64Decodes(audio_data) == B64DataChars(audio_data) % 4 # 1

(* The exception AlgorithmA.process ends with, or "ok": _validate (line    *)
(* 68), then _extract_features (line 76).                                  *)
AProcessRaises(message) ==
    IF AValidate(message) # "ok" THEN AValidate(message)
    ELSE IF ~B64Decodes(message.audio_data) THEN "ValueError"
    ELSE "ok"

(* AlgorithmA.process on a message that passed _validate; id is the fresh  *)
(* uuid4.  processed_at (wall clock) is not modelled.                      *)
AProcessOwnSource(message, id) ==
    [message_id |-> id,
     source_message_id |-> id,
     feature_type |-> "A",
     sensor_id |-> message.sensor_id,
     timestamp |-> message.timestamp,
     features |-> ExtractFeatures(message.audio_data)]

AProcess(message, id) ==
    [message_id |-> id,
     source_message_id |-> message.message_id,
     feature_type |-> "A",
     sensor_id |-> message.sensor_id,
     timestamp |-> message.timestamp,
     features |-> ExtractFeatures(message.audio_data)]

(* algorithm_b._REQUIRED_FIELDS and algorithm_b._validate.                 *)
B_REQUIRED_FIELDS == {"message_id", "sensor_id", "timestamp", "feature_type", "features"}

BValidateTagFirst(message) ==
    IF HasKey(message, "feature_type") /\ message.feature_type # "A" THEN "TypeError"
    ELSE IF B_REQUIRED_FIELDS \ DOMAIN message # {} THEN "ValueError"
    ELSE "ok"

BValidate(message) ==
    IF B_REQUIRED_FIELDS \ DOMAIN message # {} THEN "ValueError"
    ELSE IF message.feature_type # "A" THEN "TypeError"
    ELSE "ok"

(* algorithm_b._derive_features, represented by the classification it      *)
(* yields for the payloads in use (centroid 828 -> speech, 540 -> mixed).  *)
DeriveFeatures(feature_a) ==
    [classification |->
        IF feature_a.features.spectral_centroid = 828 THEN "speech" ELSE "mixed"]

(* The exception AlgorithmB.process ends with, or "ok": _validate (line    *)
(* 73), then _derive_features (line 81), whose feature_a["features"].get   *)
(* raises AttributeError when features is None.                            *)
BProcessRaises(message) ==
    IF BValidate(message) # "ok" THEN BValidate(message)
    ELSE IF message.features = None THEN "AttributeError"
    ELSE "ok"

(* AlgorithmB.process on a message that passed _validate.                  *)
BProcessRestamped(message, id) ==
    [message_id |-> id,
     source_message_id |-> message.message_id,
     feature_type |-> "B",
     sensor_id |-> message.sensor_id,
     timestamp |-> GoodTimestamp,
     features |-> DeriveFeatures(message)]

BProcessKeyedBySource(message, id) ==
    [message_id |-> message.message_id + 2000,
     source_message_id |-> message.message_id,
     feature_type |-> "B",
     sensor_id |-> message.sensor_id,
     timestamp |-> message.timestamp,
     features |-> DeriveFeatures(message)]

BProcess(message, id) ==
    [message_id |-> id,
     source_message_id |-> message.message_id,
     feature_type |-> "B",
     sensor_id |-> message.sensor_id,
     timestamp |-> message.timestamp,
     features |-> DeriveFeatures(message)]

(* Feature records a test publishes straight to a fan-out topic            *)
(* (tests/helpers.py make_feature_a_message / make_feature_b_message).     *)
(* The ids come from a small pool so that the same record is published     *)
(* more than once.                                                         *)
FeatureIds == {901, 902}

FeatureMessage(ft, id) ==
    [message_id |-> id,
     source_message_id |-> id + 1000,
     feature_type |-> ft,
     sensor_id |-> "sensor-01",
     timestamp |-> GoodTimestamp,
     features |-> IF ft = "A" THEN [spectral_centroid |-> 540]
                  ELSE [classification |-> "speech"]]

FeatureInputs == {FeatureMessage(ft, id) : ft \in {"A", "B"}, id \in FeatureIds}

----------------------------------------------------------------------------
(* Threads, their locals and the outcome of their calls.                   *)

QueueNames == {AUDIO_STREAM, "other_queue"}
Topics == {FEATURES_A, FEATURES_B}

LocInit ==
    [q |-> "", timeout |-> 0, msg |-> None, topic |-> "", out |-> None,
     subs |-> <<>>, i |-> 0, tag |-> 0, caller |-> "top", in_all |-> FALSE,
     count |-> 0, ix |-> 0, written |-> 0,
     orphan |-> FALSE,             \* the Queue object being waited on was dropped by purge_all
     g_db |-> <<>>, g_new |-> {},  \* ghost: the store, and the ids new to it that the
                                   \*        writer's inboxes held, when flush began
     args |-> None,                \* the filters of a query call
     rows |-> <<>>,                \* the list a query call returned
     g_count0 |-> 0,               \* ghost: processed_count when process_all began
     g_pending |-> 0,              \* ghost: messages in the source when process_all began
     g_purges |-> 0]               \* ghost: purge_all calls made when this call began

(* Outcome of a call: the exception that left it ("none" if it returned),  *)
(* the count it returned (process_all, flush) and whether it returned a    *)
(* value other than None / False.                                          *)
Res(op, exc, n, ok) == [op |-> op, exc |-> exc, n |-> n, ok |-> ok]
ResInit == Res("none", "none", 0, FALSE)

(* The stage instance a thread's call belongs to: a pod's own AlgorithmA,  *)
(* or the single AlgorithmB.                                               *)
StageOf(t, l) == IF l.caller = "b_one" THEN "b" ELSE t
Stages == Pods \cup {"b"}

(* The outermost call a thread is in: the one an exception propagates out  *)
(* of, since no method of the stages or the writer catches it.             *)
TopOp(l) ==
    CASE l.caller = "a_one" -> IF l.in_all THEN "a.process_all" ELSE "a.process_one"
      [] l.caller = "b_one" -> IF l.in_all THEN "b.process_all" ELSE "b.process_one"
      [] l.caller = "flush" -> "flush"
      [] l.caller = "publish_work" -> "publish_work"
      [] l.caller = "consume_work" -> "consume_work"
      [] l.caller = "work_queue_depth" -> "work_queue_depth"
      [] OTHER -> "publish_fanout"

Goto(t, label, l) ==
    /\ pc' = [pc EXCEPT ![t] = label]
    /\ loc' = [loc EXCEPT ![t] = l]
    /\ res' = res

Finish(t, r) ==
    /\ pc' = [pc EXCEPT ![t] = "idle"]
    /\ loc' = [loc EXCEPT ![t] = LocInit]
    /\ res' = [res EXCEPT ![t] = r]

(* An exception nobody catches: the outermost call ends with it.           *)
RaiseOutSwallowed(t, l, exc) == Goto(t, "pf_lock", l)

RaiseOut(t, l, exc) == Finish(t, Res(TopOp(l), exc, 0, FALSE))

Bump(f, k) == [f EXCEPT ![k] = @ + 1]

----------------------------------------------------------------------------
(* InMemoryBroker: work queues.                                            *)

(* `if queue_name not in self._work_queues: self._work_queues[queue_name]  *)
(* = asyncio.Queue()` under the lock (publish_work and consume_work).      *)
EnsureQueueAlwaysNew(q) ==
    [x \in DOMAIN work_queues \cup {q} |-> IF x = q THEN <<>> ELSE work_queues[x]]

EnsureQueue(q) ==
    IF q \in DOMAIN work_queues THEN work_queues ELSE work_queues @@ (q :> <<>>)

(* What a stage does with the value consume_work / get_nowait handed it:   *)
(* process_one's lines after the consume.  `stage` is "a" or "b".          *)
(*   None          -> process_one returns None (process_all returns count) *)
(*   invalid       -> _validate raises, the exception leaves process_one   *)
(*                    and process_all; nothing was published or counted    *)
(*   valid         -> process() built the output, publish_fanout is next   *)
Validate(stage, m) == IF stage = "a" THEN AProcessRaises(m) ELSE BProcessRaises(m)
Process(stage, m, id) == IF stage = "a" THEN AProcess(m, id) ELSE BProcess(m, id)
OutTopic(stage) == IF stage = "a" THEN FEATURES_A ELSE FEATURES_B

(* `if message is None: return None` (algorithm_a lines 85-86) and          *)
(* `except asyncio.QueueEmpty: return None` (algorithm_b lines 92-93); in  *)
(* process_all the loop then ends and `count` is returned.                 *)
NoInputTruthy(l) == Res(TopOp(l), "none", IF l.in_all THEN l.count ELSE 0, TRUE)

NoInput(l) == Res(TopOp(l), "none", IF l.in_all THEN l.count ELSE 0, FALSE)

StageTakes(t, l, stage, val) ==
    LET s == StageOf(t, l) IN
    IF val = None THEN
        /\ Finish(t, NoInput(l))
        /\ UNCHANGED <<next_uuid, flog>>
    ELSE IF Validate(stage, val) # "ok" THEN
        /\ RaiseOut(t, l, Validate(stage, val))
        /\ flog' = [flog EXCEPT ![s].consumed = @ + 1, ![s].rejected = @ + 1]
        /\ UNCHANGED next_uuid
    ELSE
        /\ Goto(t, "pf_lock", [l EXCEPT !.msg = val, !.topic = OutTopic(stage),
                                        !.out = Process(stage, val, next_uuid)])
        /\ next_uuid' = next_uuid + 1
        /\ flog' = [flog EXCEPT ![s].consumed = @ + 1]

(* The value consume_work returns goes to its caller: a top-level caller   *)
(* (the call ends) or AlgorithmA.process_one.                              *)
ConsumeReturns(t, l, val) ==
    IF l.caller = "a_one" THEN StageTakes(t, l, "a", val)
    ELSE /\ Finish(t, Res("consume_work", "none", 0, val # None))
         /\ UNCHANGED <<next_uuid, flog>>

(* consume_work, lines 63-64: `except (asyncio.TimeoutError,               *)
(* asyncio.QueueEmpty): return None`.                                      *)
NothingPendingRaises(t, l) ==
    /\ RaiseOut(t, l, "QueueEmpty")
    /\ UNCHANGED <<next_uuid, flog>>

NothingPending(t, l) == ConsumeReturns(t, l, None)

(* publish_work, lines 41-45: the call and its lock block.  The message is *)
(* built by the caller with a fresh uuid4 as message_id.                   *)
PublishWork(t, q, kind) ==
    /\ pc[t] = "idle"
    /\ calls.publish_work < MaxWorkPub
    /\ work_queues' = EnsureQueue(q)
    /\ Goto(t, "pw_put", [LocInit EXCEPT !.q = q, !.caller = "publish_work",
                                         !.msg = AudioMessage(kind, next_uuid),
                                         !.g_purges = calls.purge])
    /\ next_uuid' = next_uuid + 1
    /\ calls' = Bump(calls, "publish_work")
    /\ UNCHANGED <<fanout, inbox, stageVars, writerVars, wlog, clog, pubs, ihist,
                   write_log, real_fanout_queues, pg_features, apiVars, flog>>

(* publish_work, line 46: self._work_queues[queue_name].put_nowait(message) *)
(* outside the lock; the dict lookup raises KeyError if the key is gone.   *)
PutNowaitAtHead(queue, m) == <<m>> \o queue

PutNowait(queue, m) == Append(queue, m)

PublishWorkPut(t) ==
    /\ pc[t] = "pw_put"
    /\ LET l == loc[t] IN
       IF l.q \in DOMAIN work_queues THEN
           /\ work_queues' = [work_queues EXCEPT ![l.q] = PutNowait(@, l.msg)]
           /\ wlog' = [wlog EXCEPT ![l.q] = Append(@, l.msg)]
           /\ Finish(t, Res("publish_work", "none", 0, TRUE))
       ELSE
           /\ UNCHANGED <<work_queues, wlog>>
           /\ RaiseOut(t, l, "KeyError")
    /\ UNCHANGED <<fanout, inbox, stageVars, writerVars, next_uuid, calls, clog, pubs,
                   ihist, write_log, real_fanout_queues, pg_features, apiVars, flog>>

(* consume_work, lines 54-56: the lock block, shared by every caller.      *)
ConsumeWorkLock(t, l) ==
    /\ work_queues' = EnsureQueue(l.q)
    /\ Goto(t, "cw_get", l)
    /\ UNCHANGED <<fanout, inbox, stageVars, writerVars, next_uuid, calls, wlog, clog,
                   pubs, ihist, write_log, real_fanout_queues, pg_features, apiVars, flog>>

ConsumeWork(t, q, timeout) ==
    /\ pc[t] = "idle"
    /\ ConsumeWorkLock(t, [LocInit EXCEPT !.q = q, !.timeout = timeout,
                                          !.caller = "consume_work"])

(* consume_work, lines 57-64: get_nowait (timeout 0) or the first attempt  *)
(* of get() under wait_for (timeout > 0): the head if there is one,        *)
(* otherwise None at once or the wait.                                     *)
ConsumeWorkGet(t) ==
    /\ pc[t] = "cw_get"
    /\ LET l == loc[t] IN
       IF l.q \notin DOMAIN work_queues THEN
           /\ RaiseOut(t, l, "KeyError")
           /\ UNCHANGED <<work_queues, clog, next_uuid, flog>>
       ELSE IF work_queues[l.q] # <<>> THEN
           /\ work_queues' = [work_queues EXCEPT ![l.q] = Tail(@)]
           /\ clog' = [clog EXCEPT ![l.q] = Append(@, <<t, Head(work_queues[l.q])>>)]
           /\ ConsumeReturns(t, l, Head(work_queues[l.q]))
       ELSE IF l.timeout > 0 THEN
           /\ Goto(t, "cw_wait", l)
           /\ UNCHANGED <<work_queues, clog, next_uuid, flog>>
       ELSE
           /\ NothingPending(t, l)
           /\ UNCHANGED <<work_queues, clog>>
    /\ UNCHANGED <<fanout, inbox, stageVars, writerVars, calls, wlog, pubs, ihist,
                   write_log, real_fanout_queues, pg_features, apiVars>>

(* consume_work, lines 59-64, timeout > 0 and the queue was empty: get()   *)
(* completes when a message arrives, or asyncio.TimeoutError is caught and *)
(* None is returned.                                                       *)
ConsumeWorkWait(t) ==
    /\ pc[t] = "cw_wait"
    /\ LET l == loc[t] IN
       \/ /\ ~l.orphan
          /\ l.q \in DOMAIN work_queues
          /\ work_queues[l.q] # <<>>
          /\ work_queues' = [work_queues EXCEPT ![l.q] = Tail(@)]
          /\ clog' = [clog EXCEPT ![l.q] = Append(@, <<t, Head(work_queues[l.q])>>)]
          /\ ConsumeReturns(t, l, Head(work_queues[l.q]))
       \/ /\ NothingPending(t, l)
          /\ UNCHANGED <<work_queues, clog>>
    /\ UNCHANGED <<fanout, inbox, stageVars, writerVars, calls, wlog, pubs, ihist,
                   write_log, real_fanout_queues, pg_features, apiVars>>

(* work_queue_depth, lines 66-70. *)
work_queue_depth(q) == IF q \notin DOMAIN work_queues THEN 0 ELSE Len(work_queues[q])

----------------------------------------------------------------------------
(* InMemoryBroker: fan-out.                                                *)

(* self._fanout.get(topic, []) *)
Subscribers(topic) == IF topic \in DOMAIN fanout THEN fanout[topic] ELSE <<>>

RECURSIVE SumLens(_, _)
SumLens(f, S) ==
    IF S = {} THEN 0
    ELSE LET x == CHOOSE y \in S : TRUE IN Len(f[x]) + SumLens(f, S \ {x})

(* fanout_subscriber_count, lines 96-98. *)
fanout_subscriber_countAll(topic) == SumLens(fanout, DOMAIN fanout)

fanout_subscriber_count(topic) == Len(Subscribers(topic))

(* subscribe_fanout, lines 82-87, on the dict f: a new inbox `id` is       *)
(* appended to the topic's list, which is created on first use.            *)
RegisteredAlone(f, topic, id) ==
    [x \in DOMAIN f \cup {topic} |-> IF x = topic THEN <<id>> ELSE f[x]]

Registered(f, topic, id) ==
    IF topic \in DOMAIN f THEN [f EXCEPT ![topic] = Append(@, id)]
    ELSE f @@ (topic :> <<id>>)

NewInboxHist(topic, owner) ==
    [topic |-> topic, owner |-> owner, reg_at |-> Len(pubs), log |-> <<>>, taken |-> 0,
     purges |-> calls.purge]

(* get_nowait on inbox i when it holds a message: the head leaves that      *)
(* asyncio.Queue; every subscriber has a Queue of its own.                 *)
GetNowaitShared(ib, i) ==
    [j \in DOMAIN ib |->
        IF ihist[j].topic = ihist[i].topic /\ ib[j] # <<>> THEN Tail(ib[j]) ELSE ib[j]]

GetNowait(ib, i) == [ib EXCEPT ![i] = Tail(@)]

(* subscribe_fanout called by a test or a probe, which keeps the inbox.    *)
MockSubscribe(topic) ==
    /\ Len(inbox) < MaxInbox
    /\ Cardinality({i \in 1..Len(ihist) : ihist[i].owner = "probe"}) < MaxProbes
    /\ inbox' = Append(inbox, <<>>)
    /\ fanout' = Registered(fanout, topic, Len(inbox) + 1)
    /\ ihist' = Append(ihist, NewInboxHist(topic, "probe"))
    /\ UNCHANGED <<work_queues, stageVars, writerVars, pc, loc, res, next_uuid, calls,
                   wlog, clog, pubs, write_log, pg_features, apiVars, flog>>

SubscribeFanout(topic) ==
    /\ MockSubscribe(topic)
    /\ UNCHANGED real_fanout_queues

(* RealBroker.subscribe_fanout (src/infra/broker.py lines 152-163): the    *)
(* server names a new exclusive queue and binds it to the exchange `topic`; *)
(* the adapter appends the name, and only the name, to _fanout_queues.     *)
RealSubscribed(qs, topic) == Append(qs, Len(qs) + 1)

(* RealBroker.fanout_subscriber_count (lines 172-176):                     *)
(* return len(self._fanout_queues), whatever the topic.                    *)
RealFanoutSubscriberCount(topic) == Len(real_fanout_queues)

(* The same subscribe_fanout(topic) call made on an InMemoryBroker and on  *)
(* a RealBroker.                                                           *)
SubscribeBoth(topic) ==
    /\ MockSubscribe(topic)
    /\ real_fanout_queues' = RealSubscribed(real_fanout_queues, topic)

(* The inboxes `for q in subscribers` (line 93) iterates: the copy taken   *)
(* under the lock, not the live list.                                      *)
PublishTargetsLive(l) == Subscribers(l.topic)

PublishTargetsFirstOnly(l) == <<l.subs[1]>>

PublishTargets(l) == l.subs

(* What follows publish_fanout's return in its caller: the call ends (a    *)
(* top-level publish), or process_one counts the message and returns the   *)
(* output, and process_all counts it and loops.                            *)
(* self.processed_count += 1 (algorithm_a line 89, algorithm_b line 96). *)
CountedTwice(n) == n + 2

Counted(n) == n + 1

PublishReturns(t, l) ==
    LET s == StageOf(t, l) IN
    IF l.caller \notin {"a_one", "b_one"} THEN
        /\ Finish(t, Res("publish_fanout", "none", 0, TRUE))
        /\ UNCHANGED <<a_processed_count, b_processed_count, flog>>
    ELSE
        /\ IF l.caller = "a_one"
           THEN /\ a_processed_count' = [a_processed_count EXCEPT ![t] = Counted(@)]
                /\ UNCHANGED b_processed_count
           ELSE /\ b_processed_count' = Counted(b_processed_count)
                /\ UNCHANGED a_processed_count
        /\ flog' = [flog EXCEPT ![s].published = @ + 1]
        /\ IF l.in_all
           THEN Goto(t, IF l.caller = "a_one" THEN "a_call" ELSE "b_call",
                     [LocInit EXCEPT !.caller = l.caller, !.in_all = TRUE,
                                     !.count = l.count + 1, !.g_count0 = l.g_count0,
                                     !.g_pending = l.g_pending])
           ELSE Finish(t, Res(TopOp(l), "none", 0, TRUE))

(* publish_fanout, lines 91-92: under the lock, copy the topic's list.     *)
(* With no subscriber the loop body never runs and the call returns.       *)
PublishFanoutLock(t, l) ==
    LET subs == Subscribers(l.topic)
        tag  == Len(pubs) + 1
    IN  /\ pubs' = Append(pubs, [topic |-> l.topic, msg |-> l.out, by |-> StageOf(t, l),
                                 snapshot |-> subs, done |-> subs = <<>>,
                                 purges |-> calls.purge,
                                 before |-> {k \in 1..Len(pubs) : pubs[k].done}])
        /\ IF subs = <<>>
           THEN PublishReturns(t, l)
           ELSE /\ Goto(t, "pf_put", [l EXCEPT !.subs = subs, !.i = 1, !.tag = tag])
                /\ UNCHANGED <<a_processed_count, b_processed_count, flog>>
        /\ UNCHANGED <<brokerVars, b_inbox, writerVars, next_uuid, wlog, clog, ihist,
                       write_log, real_fanout_queues, pg_features, apiVars>>

(* A test or producer publishing a feature record straight to a topic.     *)
PublishFanout(t, topic, m) ==
    /\ pc[t] = "idle"
    /\ calls.publish_fanout < MaxFanoutPub
    /\ calls' = Bump(calls, "publish_fanout")
    /\ PublishFanoutLock(t, [LocInit EXCEPT !.topic = topic, !.out = m,
                                            !.caller = "publish_fanout"])

(* publish_fanout called by a stage's process_one (algorithm_a line 88,    *)
(* algorithm_b line 95).                                                   *)
StagePublish(t) ==
    /\ pc[t] = "pf_lock"
    /\ PublishFanoutLock(t, loc[t])
    /\ UNCHANGED calls

(* publish_fanout, lines 93-94: one q.put_nowait(message) of the loop.     *)
PublishFanoutPut(t) ==
    /\ pc[t] = "pf_put"
    /\ LET l  == loc[t]
           tg == PublishTargets(l)
           i  == tg[l.i]
       IN  /\ inbox' = [inbox EXCEPT ![i] = Append(@, l.out)]
           /\ ihist' = [ihist EXCEPT ![i].log = Append(@, l.tag)]
           /\ IF l.i >= Len(tg)
              THEN /\ pubs' = [pubs EXCEPT ![l.tag].done = TRUE]
                   /\ PublishReturns(t, l)
              ELSE /\ Goto(t, "pf_put", [l EXCEPT !.i = @ + 1])
                   /\ UNCHANGED <<pubs, a_processed_count, b_processed_count, flog>>
    /\ UNCHANGED <<work_queues, fanout, b_inbox, writerVars, next_uuid, calls, wlog,
                   clog, write_log, real_fanout_queues, pg_features, apiVars>>

(* get_nowait on an inbox a probe holds: the head, removed.  On an empty   *)
(* inbox asyncio.QueueEmpty is raised and nothing changes.                 *)
InboxGet(i) ==
    /\ i \in 1..Len(inbox)
    /\ ihist[i].owner = "probe"
    /\ inbox[i] # <<>>
    /\ inbox' = GetNowait(inbox, i)
    /\ ihist' = [ihist EXCEPT ![i].taken = @ + 1]
    /\ UNCHANGED <<work_queues, fanout, stageVars, writerVars, pc, loc, res, next_uuid,
                   calls, wlog, clog, pubs, write_log, real_fanout_queues, pg_features, apiVars, flog>>

----------------------------------------------------------------------------
(* InMemoryBroker: purge_all and the depth query as calls of a thread.     *)

(* purge_all, line 107: self._work_queues = {} *)
PurgedWorkQueuesKept == work_queues

PurgedWorkQueues == <<>>

(* purge_all, line 108: self._fanout = {} *)
PurgedFanoutKept == fanout

PurgedFanout == <<>>

(* purge_all, lines 104-108, one lock block.  Both maps are replaced by    *)
(* empty ones; the Queue objects they held are not touched, so an inbox    *)
(* keeps its content and a consume_work waiting in get() keeps waiting on  *)
(* a Queue no publish can reach any more.                                  *)
PurgeAll(t) ==
    /\ pc[t] = "idle"
    /\ calls.purge < MaxPurge
    /\ work_queues' = PurgedWorkQueues
    /\ fanout' = PurgedFanout
    /\ pc' = pc
    /\ loc' = [u \in Threads |->
                 IF pc[u] = "cw_wait" THEN [loc[u] EXCEPT !.orphan = TRUE] ELSE loc[u]]
    /\ res' = [res EXCEPT ![t] = Res("purge_all", "none", 0, TRUE)]
    /\ calls' = [calls EXCEPT !.purge = @ + 1,
                              !.put_mark = [q \in QueueNames |-> Len(wlog[q])],
                              !.got_mark = [q \in QueueNames |-> Len(clog[q])],
                              !.taken_mark = [i \in 1..Len(ihist) |-> ihist[i].taken]]
    /\ UNCHANGED <<inbox, stageVars, writerVars, next_uuid, wlog, clog, pubs, ihist,
                   write_log, real_fanout_queues, pg_features, apiVars, flog>>

(* work_queue_depth called by a thread, lines 68-69: the membership test   *)
(* on self._work_queues, without the lock; 0 for a name that is not there. *)
DepthCheck(t, q) ==
    /\ pc[t] = "idle"
    /\ IF q \notin DOMAIN work_queues
       THEN Finish(t, Res("work_queue_depth", "none", 0, TRUE))
       ELSE Goto(t, "wd_size", [LocInit EXCEPT !.q = q, !.caller = "work_queue_depth"])
    /\ UNCHANGED <<brokerVars, stageVars, writerVars, next_uuid, calls, wlog, clog, pubs,
                   ihist, write_log, real_fanout_queues, pg_features, apiVars, flog>>

(* work_queue_depth, line 70: self._work_queues[queue_name].qsize(), a     *)
(* second read of the attribute; KeyError if the name is gone by now.      *)
DepthSize(t) ==
    /\ pc[t] = "wd_size"
    /\ LET l == loc[t] IN
       IF l.q \in DOMAIN work_queues
       THEN Finish(t, Res("work_queue_depth", "none", Len(work_queues[l.q]), TRUE))
       ELSE RaiseOut(t, l, "KeyError")
    /\ UNCHANGED <<brokerVars, stageVars, writerVars, next_uuid, calls, wlog, clog, pubs,
                   ihist, write_log, real_fanout_queues, pg_features, apiVars, flog>>

----------------------------------------------------------------------------
(* AlgorithmA (one instance per pod thread).                               *)

(* process_one, line 84: await self.broker.consume_work(AUDIO_STREAM);     *)
(* the rest of process_one is StageTakes / StagePublish / PublishReturns.  *)
AProcessOne(t) ==
    /\ pc[t] = "idle"
    /\ ConsumeWorkLock(t, [LocInit EXCEPT !.q = AUDIO_STREAM, !.caller = "a_one"])

(* process_all, lines 98-99: count = 0 and the first process_one.          *)
AProcessAll(t) ==
    /\ pc[t] = "idle"
    /\ ConsumeWorkLock(t, [LocInit EXCEPT !.q = AUDIO_STREAM, !.caller = "a_one",
                                          !.in_all = TRUE,
                                          !.g_count0 = a_processed_count[t],
                                          !.g_pending = work_queue_depth(AUDIO_STREAM)])

(* process_all, line 99: the loop calls process_one again.                 *)
AProcessAllNext(t) ==
    /\ pc[t] = "a_call"
    /\ ConsumeWorkLock(t, [loc[t] EXCEPT !.q = AUDIO_STREAM])

----------------------------------------------------------------------------
(* AlgorithmB (a single instance, driven by one thread at a time).         *)

(* AlgorithmB.__init__, lines 63-66. *)
NewAlgorithmB ==
    /\ b_inbox = 0
    /\ Len(inbox) < MaxInbox
    /\ inbox' = Append(inbox, <<>>)
    /\ fanout' = Registered(fanout, FEATURES_A, Len(inbox) + 1)
    /\ ihist' = Append(ihist, NewInboxHist(FEATURES_A, "b"))
    /\ b_inbox' = Len(inbox) + 1
    /\ b_processed_count' = 0
    /\ UNCHANGED <<work_queues, a_processed_count, writerVars, pc, loc, res, next_uuid,
                   calls, wlog, clog, pubs, write_log, real_fanout_queues, pg_features, apiVars, flog>>

BBusy == \E u \in Threads : loc[u].caller = "b_one"

(* process_one, lines 90-94: self._inbox.get_nowait(), QueueEmpty -> None, *)
(* then process().                                                         *)
BGet(t, l) ==
    /\ b_inbox # 0
    /\ IF inbox[b_inbox] = <<>> THEN
           /\ StageTakes(t, l, "b", None)
           /\ UNCHANGED <<inbox, ihist>>
       ELSE
           /\ inbox' = GetNowait(inbox, b_inbox)
           /\ ihist' = [ihist EXCEPT ![b_inbox].taken = @ + 1]
           /\ StageTakes(t, l, "b", Head(inbox[b_inbox]))
    /\ UNCHANGED <<work_queues, fanout, stageVars, writerVars, calls, wlog, clog, pubs,
                   write_log, real_fanout_queues, pg_features, apiVars>>

BProcessOne(t) ==
    /\ pc[t] = "idle"
    /\ ~BBusy
    /\ BGet(t, [LocInit EXCEPT !.caller = "b_one"])

BProcessAll(t) ==
    /\ pc[t] = "idle"
    /\ ~BBusy
    /\ BGet(t, [LocInit EXCEPT !.caller = "b_one", !.in_all = TRUE,
                            !.g_count0 = b_processed_count,
                            !.g_pending = IF b_inbox = 0 THEN 0 ELSE Len(inbox[b_inbox])])

BProcessAllNext(t) ==
    /\ pc[t] = "b_call"
    /\ BGet(t, loc[t])

----------------------------------------------------------------------------
(* DataWriter.                                                             *)

(* DataWriter.__init__, lines 30-35. *)
NewDataWriter ==
    /\ writer_inboxes = <<0, 0>>
    /\ Len(inbox) + 2 <= MaxInbox
    /\ inbox' = inbox \o <<(<<>>), (<<>>)>>
    /\ fanout' = Registered(Registered(fanout, FEATURES_A, Len(inbox) + 1),
                            FEATURES_B, Len(inbox) + 2)
    /\ ihist' = ihist \o <<NewInboxHist(FEATURES_A, "writer"),
                           NewInboxHist(FEATURES_B, "writer")>>
    /\ writer_inboxes' = <<Len(inbox) + 1, Len(inbox) + 2>>
    /\ db' = <<>>
    /\ UNCHANGED <<work_queues, stageVars, pc, loc, res, next_uuid, calls, wlog, clog,
                   pubs, write_log, real_fanout_queues, pg_features, apiVars, flog>>

(* _write, lines 37-50, as one step (the whole body runs under             *)
(* self._lock): the new store, the value returned, the exception raised.   *)
(* any(r["message_id"] == message["message_id"] for r in self.db) looks up *)
(* both keys for each stored record in turn, so a missing key raises       *)
(* KeyError at the first record; with an empty store nothing is looked up  *)
(* until the logger.debug after the append.                                *)
RECURSIVE Scan(_, _, _)
Scan(store, m, j) ==
    IF j > Len(store) THEN "absent"
    ELSE IF ~HasKey(store[j], "message_id") \/ ~HasKey(m, "message_id") THEN "KeyError"
    ELSE IF store[j].message_id = m.message_id THEN "present"
    ELSE Scan(store, m, j + 1)

_writeNoCheck(store, m) == [db |-> Append(store, m), ok |-> TRUE, exc |-> "none"]

_writeAlwaysTrue(store, m) ==
    [db |-> IF \E j \in 1..Len(store) : store[j].message_id = m.message_id
            THEN store ELSE Append(store, m),
     ok |-> TRUE, exc |-> "none"]

_writeUpsert(store, m) ==
    LET found == Scan(store, m, 1) IN
    CASE found = "KeyError" -> [db |-> store, ok |-> FALSE, exc |-> "KeyError"]
      [] found = "present"  ->
             [db |-> Append(SelectSeq(store, LAMBDA r : r.message_id # m.message_id), m),
              ok |-> FALSE, exc |-> "none"]
      [] OTHER -> IF HasKey(m, "message_id")
                  THEN [db |-> Append(store, m), ok |-> TRUE, exc |-> "none"]
                  ELSE [db |-> Append(store, m), ok |-> FALSE, exc |-> "KeyError"]

_write(store, m) ==
    LET found == Scan(store, m, 1) IN
    CASE found = "KeyError" -> [db |-> store, ok |-> FALSE, exc |-> "KeyError"]
      [] found = "present"  -> [db |-> store, ok |-> FALSE, exc |-> "none"]
      [] OTHER -> IF HasKey(m, "message_id")
                  THEN [db |-> Append(store, m), ok |-> TRUE, exc |-> "none"]
                  ELSE [db |-> Append(store, m), ok |-> FALSE, exc |-> "KeyError"]

WriteLogged(before, m, o, via) ==
    Append(write_log, [msg |-> m, ok |-> o.ok, exc |-> o.exc, via |-> via,
                       present |-> \E j \in 1..Len(before) :
                                       /\ HasKey(before[j], "message_id")
                                       /\ HasKey(m, "message_id")
                                       /\ before[j].message_id = m.message_id])

(* A direct call of DataWriter._write(m). *)
DirectWrite(t, m) ==
    /\ pc[t] = "idle"
    /\ writer_inboxes # <<0, 0>>
    /\ calls.write < MaxWrite
    /\ calls' = Bump(calls, "write")
    /\ LET o == _write(db, m) IN
       /\ db' = o.db
       /\ write_log' = WriteLogged(db, m, o, "direct")
       /\ UNCHANGED real_fanout_queues
       /\ Finish(t, Res("_write", o.exc, 0, o.ok))
    /\ UNCHANGED <<brokerVars, stageVars, writer_inboxes, next_uuid, wlog, clog, pubs,
                   ihist, flog>>

Write(t, m) ==
    /\ DirectWrite(t, m)
    /\ UNCHANGED <<pg_features, apiVars>>

(* DataWriter.query, lines 70-96.  A filter that is None or "" is not     *)
(* applied (`if feature_type:`); r.get(k) of an absent key is None, and    *)
(* r.get("timestamp", "") is compared with start and end as str.           *)
Truthy(v) == v \notin {NoneValue, ""}

Get(r, k, default) == IF HasKey(r, k) THEN r[k] ELSE default

NoFilters == [feature_type |-> NoneValue, sensor_id |-> NoneValue,
              start |-> NoneValue, end |-> NoneValue]

KeepEq(rows, k, v) ==
    IF Truthy(v) THEN SelectSeq(rows, LAMBDA r : Get(r, k, NoneValue) = v) ELSE rows

KeepFrom(rows, start) ==
    IF Truthy(start)
    THEN SelectSeq(rows, LAMBDA r : StrRank(Get(r, "timestamp", "")) >= StrRank(start))
    ELSE rows

KeepUntil(rows, end) ==
    IF Truthy(end)
    THEN SelectSeq(rows, LAMBDA r : StrRank(Get(r, "timestamp", "")) <= StrRank(end))
    ELSE rows

Query(store, a) ==
    KeepUntil(KeepFrom(KeepEq(KeepEq(store, "feature_type", a.feature_type),
                              "sensor_id", a.sensor_id),
                       a.start),
              a.end)

QueryCall(t, a) ==
    /\ pc[t] = "idle"
    /\ writer_inboxes # <<0, 0>>
    /\ pc' = [pc EXCEPT ![t] = "q_done"]
    /\ loc' = [loc EXCEPT ![t] = [LocInit EXCEPT !.caller = "query", !.args = a,
                                                 !.rows = Query(db, a)]]
    /\ res' = [res EXCEPT ![t] = Res("query", "none", Len(Query(db, a)), TRUE)]
    /\ UNCHANGED <<brokerVars, stageVars, writerVars, next_uuid, calls, wlog, clog, pubs,
                   ihist, write_log, real_fanout_queues, pg_features, apiVars, flog>>

(* The caller has looked at the list. *)
QueryDone(t) ==
    /\ pc[t] = "q_done"
    /\ Finish(t, res[t])
    /\ UNCHANGED <<brokerVars, stageVars, writerVars, next_uuid, calls, wlog, clog, pubs,
                   ihist, write_log, real_fanout_queues, pg_features, apiVars, flog>>

(* PostgreSQLDatabase (infra/database.py).  Table `features` keeps, per    *)
(* row, message_id (UNIQUE), feature_type, sensor_id, timestamp as a        *)
(* TIMESTAMPTZ, i.e. the instant the written string denotes, and features   *)
(* as JSONB; the INSERT of write names these five columns and no other.     *)
PgRow(message) ==
    [message_id |-> message.message_id,
     feature_type |-> message.feature_type,
     sensor_id |-> message.sensor_id,
     timestamp |-> Instant(message.timestamp),
     features |-> message.features]

(* INSERT ... ON CONFLICT (message_id) DO NOTHING RETURNING id. *)
PgConflict(table, message) ==
    \E k \in 1..Len(table) : table[k].message_id = message.message_id

PgWritten(table, message) ==
    IF PgConflict(table, message) THEN table ELSE Append(table, PgRow(message))

(* timestamp::text: PostgreSQL's output form of a TIMESTAMPTZ, a space      *)
(* between date and time and the session's UTC offset (shown for a session  *)
(* whose TimeZone is UTC).                                                  *)
PgText(instant) ==
    CASE instant = 540 -> "2024-01-15 09:00:00+00"
      [] instant = 600 -> "2024-01-15 10:00:00+00"
      [] instant = 660 -> "2024-01-15 11:00:00+00"

(* query, lines 152-161: the dict built from one row. *)
PgDict(row) ==
    [message_id |-> row.message_id,
     feature_type |-> row.feature_type,
     sensor_id |-> row.sensor_id,
     timestamp |-> PgText(row.timestamp),
     features |-> row.features]

(* query, lines 129-140: one condition per truthy filter, joined by AND;    *)
(* the timestamp bounds are compared as TIMESTAMPTZ.                        *)
PgWhere(row, a) ==
    /\ Truthy(a.feature_type) => row.feature_type = a.feature_type
    /\ Truthy(a.sensor_id) => row.sensor_id = a.sensor_id
    /\ Truthy(a.start) => row.timestamp >= Instant(a.start)
    /\ Truthy(a.end) => row.timestamp <= Instant(a.end)

(* ORDER BY timestamp: every list of the selected rows in which timestamps  *)
(* never decrease; rows with equal timestamps come in either order.         *)
PgQuery(table, a) ==
    LET sel == {k \in 1..Len(table) : PgWhere(table[k], a)}
        n == Cardinality(sel)
        orders == {o \in [1..n -> sel] :
                      /\ \A i, j \in 1..n : i # j => o[i] # o[j]
                      /\ \A i, j \in 1..n :
                             i < j => table[o[i]].timestamp <= table[o[j]].timestamp}
    IN {[i \in 1..n |-> PgDict(table[o[i]])] : o \in orders}

(* A call of PostgreSQLDatabase.write(message) on a connected adapter. *)
PgWrite(t, message) ==
    /\ pc[t] = "idle"
    /\ calls.write < MaxWrite
    /\ calls' = Bump(calls, "write")
    /\ pg_features' = PgWritten(pg_features, message)
    /\ write_log' = Append(write_log,
                           [msg |-> message, ok |-> ~PgConflict(pg_features, message),
                            exc |-> "none", via |-> "pg",
                            present |-> PgConflict(pg_features, message)])
    /\ Finish(t, Res("pg_write", "none", 0, ~PgConflict(pg_features, message)))
    /\ UNCHANGED <<brokerVars, stageVars, writerVars, next_uuid, wlog, clog, pubs,
                   ihist, real_fanout_queues, apiVars, flog>>

(* A call of PostgreSQLDatabase.query with the filters a. *)
PgQueryCall(t, a) ==
    /\ pc[t] = "idle"
    /\ pg_features # <<>>
    /\ \E rows \in PgQuery(pg_features, a) :
           /\ loc' = [loc EXCEPT ![t] = [LocInit EXCEPT !.caller = "pg_query", !.args = a,
                                                        !.rows = rows]]
           /\ res' = [res EXCEPT ![t] = Res("pg_query", "none", Len(rows), TRUE)]
    /\ pc' = [pc EXCEPT ![t] = "q_done"]
    /\ UNCHANGED <<brokerVars, stageVars, writerVars, next_uuid, calls, wlog, clog, pubs,
                   ihist, write_log, real_fanout_queues, pg_features, apiVars, flog>>

(* Ghost: the message_ids waiting in the writer's inboxes that the store   *)
(* does not hold.                                                          *)
InboxIds(i) == {inbox[i][j].message_id : j \in 1..Len(inbox[i])}
StoreIds == {db[j].message_id : j \in {k \in 1..Len(db) : HasKey(db[k], "message_id")}}
NewIds == (InboxIds(writer_inboxes[1]) \cup InboxIds(writer_inboxes[2])) \ StoreIds

(* flush, line 58: `for inbox in (self._inbox_a, self._inbox_b)` is over   *)
(* once the second inbox has been found empty.                             *)
FlushDoneAfterFirst(l) == TRUE

FlushDone(l) == l.ix = Len(writer_inboxes)

(* flush, lines 58-65: one inbox.get_nowait() of the loop.  QueueEmpty     *)
(* breaks to the next inbox, and after the last one flush returns written. *)
FlushGet(t, l, c) ==
    LET i == writer_inboxes[l.ix] IN
    /\ IF inbox[i] = <<>> THEN
           /\ IF FlushDone(l)
              THEN /\ Finish(t, Res("flush", "none", l.written, TRUE))
                   /\ calls' = [c EXCEPT !.flush_returned = @ + l.written]
              ELSE /\ Goto(t, "fl_get", [l EXCEPT !.ix = 2])
                   /\ calls' = c
           /\ UNCHANGED <<inbox, ihist>>
       ELSE
           /\ inbox' = GetNowait(inbox, i)
           /\ ihist' = [ihist EXCEPT ![i].taken = @ + 1]
           /\ Goto(t, "fl_write", [l EXCEPT !.msg = Head(inbox[i])])
           /\ calls' = c
    /\ UNCHANGED <<work_queues, fanout, stageVars, writerVars, next_uuid, wlog, clog,
                   pubs, write_log, real_fanout_queues, pg_features, apiVars, flog>>

(* flush, lines 57-58: written = 0 and the first get_nowait on _inbox_a.   *)
Flush(t) ==
    /\ pc[t] = "idle"
    /\ writer_inboxes # <<0, 0>>
    /\ calls.flush < MaxFlush
    /\ FlushGet(t, [LocInit EXCEPT !.caller = "flush", !.ix = 1,
                                    !.g_db = db, !.g_new = NewIds],
                Bump(calls, "flush"))

FlushNext(t) ==
    /\ pc[t] = "fl_get"
    /\ FlushGet(t, loc[t], calls)

(* flush, lines 62-63: `if self._write(msg): written += 1`. *)
WrittenCountsAll(l, o) == l.written + 1

Written(l, o) == IF o.ok THEN l.written + 1 ELSE l.written

(* flush, lines 62-63: if self._write(msg): written += 1.  A KeyError from *)
(* _write is not caught (only QueueEmpty is) and ends flush.               *)
FlushWrite(t) ==
    /\ pc[t] = "fl_write"
    /\ LET l == loc[t]
           o == _write(db, l.msg)
       IN  /\ db' = o.db
           /\ write_log' = WriteLogged(db, l.msg, o, "flush")
           /\ UNCHANGED <<real_fanout_queues, pg_features, apiVars>>
           /\ IF o.exc # "none" THEN RaiseOut(t, l, o.exc)
              ELSE Goto(t, "fl_get", [l EXCEPT !.msg = None,
                                               !.written = Written(l, o)])
    /\ UNCHANGED <<brokerVars, stageVars, writer_inboxes, next_uuid, calls, wlog, clog,
                   pubs, ihist, flog>>

----------------------------------------------------------------------------
(* The state after InMemoryBroker() and the AlgorithmA pods are built:     *)
(* empty dicts, counters at 0.  AlgorithmB and DataWriter subscribe in     *)
(* their constructors, which are actions (NewAlgorithmB, NewDataWriter).   *)
(* Clients are the callers of the REST app, by request.remote_addr.        *)
Clients == {"10.0.0.1", "10.0.0.2"}

Init ==
    /\ work_queues = <<>>
    /\ fanout = <<>>
    /\ inbox = <<>>
    /\ a_processed_count = [p \in Pods |-> 0]
    /\ b_inbox = 0
    /\ b_processed_count = 0
    /\ writer_inboxes = <<0, 0>>
    /\ db = <<>>
    /\ pc = [t \in Threads |-> "idle"]
    /\ loc = [t \in Threads |-> LocInit]
    /\ res = [t \in Threads |-> ResInit]
    /\ next_uuid = 1
    /\ calls = [publish_work |-> 0, publish_fanout |-> 0, write |-> 0, flush |-> 0,
                flush_returned |-> 0, purge |-> 0,
                put_mark |-> [q \in QueueNames |-> 0],
                taken_mark |-> <<>>,
                got_mark |-> [q \in QueueNames |-> 0]]
    /\ wlog = [q \in QueueNames |-> <<>>]
    /\ clog = [q \in QueueNames |-> <<>>]
    /\ pubs = <<>>
    /\ ihist = <<>>
    /\ write_log = <<>>
    /\ real_fanout_queues = <<>>
    /\ pg_features = <<>>
    /\ rate_tracker = [c \in Clients |-> 0]
    /\ api_inboxes = <<0, 0>>
    /\ cache = <<>>
    /\ flog = [s \in Stages |-> [consumed |-> 0, rejected |-> 0, published |-> 0]]

(* Work queues alone: a producer thread and two competing consumers on    *)
(* the audio queue, with and without a timeout.                            *)
NextWork ==
    \/ \E kind \in {"valid", "missing"} : PublishWork("t3", AUDIO_STREAM, kind)
    \/ PublishWorkPut("t3")
    \/ \E t \in Pods, timeout \in {0, 1} : ConsumeWork(t, AUDIO_STREAM, timeout)
    \/ \E t \in Pods : ConsumeWorkGet(t)
    \/ \E t \in Pods : ConsumeWorkWait(t)

SpecWork == Init /\ [][NextWork]_vars

(* Fan-out alone: publishers on two threads, inboxes registered at any     *)
(* time, probes reading their inboxes.  Each publish carries a record with *)
(* a message_id of its own, as make_feature_a_message() builds them.       *)
NextFanout ==
    \/ \E topic \in Topics : SubscribeFanout(topic)
    \/ \E t \in Pods, topic \in Topics :
          PublishFanout(t, topic, FeatureMessage("A", 901 + calls.publish_fanout))
    \/ \E t \in Pods : PublishFanoutPut(t)
    \/ \E i \in 1..MaxInbox : InboxGet(i)

SpecFanout == Init /\ [][NextFanout]_vars

----------------------------------------------------------------------------
(* Properties of the work queues.                                          *)

Returned(q) == [k \in 1..Len(clog[q]) |-> clog[q][k][2]]
Pending(q) == IF q \in DOMAIN work_queues THEN work_queues[q] ELSE <<>>

(* Every message put on a queue is either pending or was returned, once,   *)
(* to one caller: returned ++ pending is exactly the sequence of puts, and *)
(* no message occurs twice among the returned ones.                        *)
WorkConserved ==
    \A q \in QueueNames :
        /\ Returned(q) \o Pending(q) = wlog[q]
        /\ \A j, k \in 1..Len(clog[q]) : j # k => clog[q][j][2] # clog[q][k][2]

(* A consume that finds the queue empty (get_nowait raises QueueEmpty,     *)
(* the caller gets None) happens only when every message put so far has    *)
(* been returned to some caller.                                           *)
EmptyMeansAllReturned ==
    \A t \in Threads :
        (/\ pc[t] = "cw_get" /\ pc'[t] = "idle"
         /\ res'[t].exc = "none" /\ ~res'[t].ok)
        => Len(clog'[loc[t].q]) = Len(wlog'[loc[t].q])

(* C1: every message published to a work queue is returned to exactly one  *)
(* caller of consume_work under any interleaving of the consumers: none is *)
(* returned twice, none is lost, and when a consumer observes "empty" the  *)
(* number returned equals the number published.                            *)
C1_ExactlyOnce == []WorkConserved /\ [][EmptyMeansAllReturned]_vars

(* Three messages were put, both consumers got at least one of them, the   *)
(* queue is drained and both consumers have then seen it empty.            *)
C1_Witness ==
    /\ Len(wlog[AUDIO_STREAM]) = MaxWorkPub
    /\ Len(clog[AUDIO_STREAM]) = MaxWorkPub
    /\ \A t \in Pods : \E k \in 1..Len(clog[AUDIO_STREAM]) : clog[AUDIO_STREAM][k][1] = t
    /\ \A t \in Pods : pc[t] = "idle" /\ res[t].op = "consume_work" /\ ~res[t].ok

----------------------------------------------------------------------------
(* Properties of fan-out.  Publish k is the k-th publish_fanout call in    *)
(* the order of their lock blocks; inbox i was registered before publish k *)
(* iff ihist[i].reg_at < k.  Publish a precedes publish b iff a had        *)
(* delivered its last copy before b took its lock (a \in pubs[b].before).  *)

Copies(i, k) == Cardinality({j \in 1..Len(ihist[i].log) : ihist[i].log[j] = k})

RegisteredBefore(i, k) == ihist[i].topic = pubs[k].topic /\ ihist[i].reg_at < k

(* What an inbox still holds is, in order, the deliveries not yet taken.   *)
InboxHoldsUntaken(i) ==
    LET h == ihist[i] IN
    inbox[i] = [j \in 1..(Len(h.log) - h.taken) |-> pubs[h.log[h.taken + j]].msg]

(* C2: every inbox registered on the topic before a publish_fanout gets    *)
(* exactly one copy of the message, and each inbox yields its messages in  *)
(* the order they were published.                                          *)
C2_FanoutDelivery ==
    \A i \in 1..Len(ihist) :
        /\ \A k \in 1..Len(pubs) :
              /\ Copies(i, k) <= 1
              /\ (pubs[k].done /\ RegisteredBefore(i, k)) => Copies(i, k) = 1
        /\ \A x, y \in 1..Len(ihist[i].log) :
              x < y => ihist[i].log[y] \notin pubs[ihist[i].log[x]].before
        /\ InboxHoldsUntaken(i)

(* Two inboxes on one topic have each received the same two publishes, the *)
(* second of which began after the first had completed, and one message    *)
(* has been taken from an inbox.                                           *)
C2_Witness ==
    \E i, j \in 1..Len(ihist) :
        /\ i # j
        /\ Len(pubs) = 2 /\ pubs[1].done /\ pubs[2].done /\ 1 \in pubs[2].before
        /\ ihist[i].log = <<1, 2>> /\ ihist[j].log = <<1, 2>>
        /\ ihist[i].taken = 1

(* C3: a message is never delivered to an inbox registered after its       *)
(* publish (nothing is buffered); a publish to a topic without subscribers *)
(* completes without error and reaches no inbox, then or later.            *)
C3_NoBuffering ==
    /\ \A i \in 1..Len(ihist) : \A j \in 1..Len(ihist[i].log) :
          RegisteredBefore(i, ihist[i].log[j])
    /\ \A k \in 1..Len(pubs) :
          pubs[k].snapshot = <<>> =>
              /\ pubs[k].done
              /\ \A i \in 1..Len(ihist) : Copies(i, k) = 0
    /\ \A t \in Threads : res[t].op = "publish_fanout" => res[t].exc = "none"

(* A publish found no subscriber on the topic and returned; an inbox       *)
(* registered on that topic afterwards holds the second publish only.      *)
C3_Witness ==
    \E i \in 1..Len(ihist) :
        /\ Len(pubs) = 2 /\ pubs[1].snapshot = <<>> /\ pubs[1].done
        /\ pubs[2].topic = pubs[1].topic /\ ihist[i].topic = pubs[1].topic
        /\ ihist[i].reg_at = 1
        /\ ihist[i].log = <<2>> /\ inbox[i] = <<pubs[2].msg>>
        /\ \E t \in Threads : res[t].op = "publish_fanout"

----------------------------------------------------------------------------
(* The records the writer is fed: features_a carries type A records and   *)
(* features_b type B records, with message_ids from a pool of two, so that *)
(* a record is delivered more than once and one id arrives on both topics. *)
TopicRecord(topic, id) == FeatureMessage(IF topic = FEATURES_A THEN "A" ELSE "B", id)

WriterBuilt == writer_inboxes # <<0, 0>>

(* The writer under concurrency: it is constructed first (the documented   *)
(* construction order), then a publisher thread feeds both topics while    *)
(* two threads flush and call _write directly.                             *)
NextWriter ==
    \/ NewDataWriter
    \/ \E topic \in Topics, id \in FeatureIds :
          WriterBuilt /\ PublishFanout("t3", topic, TopicRecord(topic, id))
    \/ PublishFanoutPut("t3")
    \/ \E t \in Pods, id \in FeatureIds : Write(t, FeatureMessage("A", id))
    \/ \E t \in Pods : Flush(t)
    \/ \E t \in Pods : FlushNext(t)
    \/ \E t \in Pods : FlushWrite(t)

SpecWriter == Init /\ [][NextWriter]_vars

(* The writer driven by one thread, one call at a time (as the tests do).  *)
NextWriterSeq ==
    \/ NewDataWriter
    \/ \E topic \in Topics, id \in FeatureIds :
          WriterBuilt /\ PublishFanout("t1", topic, TopicRecord(topic, id))
    \/ PublishFanoutPut("t1")
    \/ \E id \in FeatureIds : Write("t1", FeatureMessage("A", id))
    \/ Flush("t1")
    \/ FlushNext("t1")
    \/ FlushWrite("t1")

SpecWriterSeq == Init /\ [][NextWriterSeq]_vars

(* Stage A.  A probe subscribes to features_a before anything is          *)
(* published (subscribers are set up before publishers); then a producer   *)
(* thread feeds the audio queue with well-formed messages and with ones    *)
(* missing a required field, while each pod thread, owning an AlgorithmA,  *)
(* calls process_one and process_all.                                      *)
StageReady == fanout_subscriber_count(FEATURES_A) = 1

NextStage ==
    \/ ~StageReady /\ SubscribeFanout(FEATURES_A)
    \/ \E kind \in {"valid", "missing"} :
          /\ StageReady /\ calls.publish_work < MaxStageAudio
          /\ PublishWork("t3", AUDIO_STREAM, kind)
    \/ PublishWorkPut("t3")
    \/ \E t \in Pods : StageReady /\ AProcessOne(t)
    \/ \E t \in Pods : StageReady /\ AProcessAll(t)
    \/ \E t \in Pods : AProcessAllNext(t)
    \/ \E t \in Pods : ConsumeWorkGet(t)
    \/ \E t \in Pods : StagePublish(t)
    \/ \E t \in Pods : PublishFanoutPut(t)

SpecStage == Init /\ [][NextStage]_vars

----------------------------------------------------------------------------
(* Properties of the writer.                                               *)

(* C4: in every reachable state of the writer, whatever writes and flushes *)
(* have run and however they interleaved, no two stored records share a    *)
(* message_id.                                                             *)
C4_UniqueMessageIds ==
    \A j, k \in 1..Len(db) : j # k => db[j].message_id # db[k].message_id

(* The store holds two records, and both a flush and a direct _write have  *)
(* met a message_id that was already stored.                               *)
C4_Witness ==
    /\ Len(db) = 2
    /\ \E k \in 1..Len(write_log) : write_log[k].present /\ write_log[k].via = "flush"
    /\ \E k \in 1..Len(write_log) : write_log[k].present /\ write_log[k].via = "direct"

(* Each _write call, by its effect: a message_id not in the store is       *)
(* appended and True returned; one already there leaves the store as it is *)
(* and False is returned.                                                  *)
WriteEffect ==
    Len(write_log') > Len(write_log) =>
        LET e == write_log'[Len(write_log')] IN
        /\ e.exc = "none"
        /\ IF e.present THEN ~e.ok /\ db' = db
           ELSE e.ok /\ db' = Append(db, e.msg)

(* Among all the _write calls made with one message_id, by whatever        *)
(* threads, exactly one returned True.                                     *)
OneWinnerPerId ==
    \A k \in 1..Len(write_log) :
        Cardinality({j \in 1..Len(write_log) :
                        /\ write_log[j].msg.message_id = write_log[k].msg.message_id
                        /\ write_log[j].ok}) = 1

(* C5: write returns true and adds the record when its message_id is not   *)
(* stored, returns false and leaves the store unchanged when it is; of the *)
(* calls racing on one message_id exactly one stores and returns true.     *)
C5_WriteContract == []OneWinnerPerId /\ [][WriteEffect]_vars

(* Both threads have just called _write with the same message_id: one got  *)
(* True, the other False, and the store holds that id once.                *)
C5_Witness ==
    /\ Len(write_log) = 2
    /\ write_log[1].via = "direct" /\ write_log[2].via = "direct"
    /\ write_log[1].msg.message_id = write_log[2].msg.message_id
    /\ \E t, u \in Pods :
          /\ t # u
          /\ res[t].op = "_write" /\ res[t].ok
          /\ res[u].op = "_write" /\ ~res[u].ok
    /\ Len(db) = 1

(* C6, for flush calls that run alone (no publish or write while they      *)
(* run): on return every inbox of the writer is empty, the value returned  *)
(* is the number of records the call appended to the store, and that is    *)
(* the number of distinct message_ids that waited in the inboxes and were  *)
(* not yet stored; so duplicates of one record yield one stored record and *)
(* a flush on drained inboxes returns 0 and leaves the store as it was.    *)
FlushReturnsTo(t) ==
    /\ pc[t] = "fl_get" /\ pc'[t] = "idle"
    /\ res'[t].op = "flush" /\ res'[t].exc = "none"

C6_FlushContract ==
    [][\A t \in Threads :
          FlushReturnsTo(t) =>
              /\ inbox'[writer_inboxes[1]] = <<>>
              /\ inbox'[writer_inboxes[2]] = <<>>
              /\ Len(db') = Len(loc[t].g_db) + res'[t].n
              /\ SubSeq(db', 1, Len(loc[t].g_db)) = loc[t].g_db
              /\ res'[t].n = Cardinality(loc[t].g_new)]_vars

(* One record was published twice to the writer's first topic; a first     *)
(* flush returned 1 and stored it once, a second flush returned 0.         *)
C6_Witness ==
    /\ WriterBuilt
    /\ Len(ihist[writer_inboxes[1]].log) = 2
    /\ pubs[1].msg = pubs[2].msg
    /\ calls.flush = 2 /\ calls.flush_returned = 1
    /\ pc["t1"] = "idle" /\ res["t1"].op = "flush" /\ res["t1"].n = 0
    /\ Len(db) = 1

(* C7: under any interleaving of concurrent flushes (and of publishes and  *)
(* direct writes), no delivered message_id is missing or duplicated: every *)
(* id delivered to the writer is stored, still in an inbox, or in the      *)
(* hands of a flush about to write it; the store holds each id once; and   *)
(* once no flush is running the values the flushes returned add up to the  *)
(* number of records the flushes added.                                    *)
DeliveredTo(i) == {pubs[ihist[i].log[j]].msg.message_id : j \in 1..Len(ihist[i].log)}

DeliveredIds == DeliveredTo(writer_inboxes[1]) \cup DeliveredTo(writer_inboxes[2])

LoggedIds(via) ==
    {write_log[k].msg.message_id :
        k \in {j \in 1..Len(write_log) : write_log[j].via = via}}

InHandIds == {loc[t].msg.message_id : t \in {u \in Threads : pc[u] = "fl_write"}}

FlushAdded ==
    Cardinality({k \in 1..Len(write_log) : write_log[k].via = "flush" /\ write_log[k].ok})

FlushRunning == \E t \in Threads : pc[t] \in {"fl_get", "fl_write"}

C7_ConcurrentFlush ==
    WriterBuilt =>
        /\ StoreIds \cup InboxIds(writer_inboxes[1]) \cup InboxIds(writer_inboxes[2])
              \cup InHandIds = DeliveredIds \cup LoggedIds("direct")
        /\ Cardinality(StoreIds) = Len(db)
        /\ ~FlushRunning => calls.flush_returned = FlushAdded

(* Two flushes are running at once and each took a delivery of the same    *)
(* record: the first to write stored it and counts 1, the other was        *)
(* refused and counts 0.                                                   *)
C7_Witness ==
    /\ WriterBuilt
    /\ \A t \in Pods : pc[t] = "fl_get"
    /\ \E t, u \in Pods : loc[t].written = 1 /\ loc[u].written = 0
    /\ Len(write_log) = 2
    /\ write_log[1].via = "flush" /\ write_log[2].via = "flush"
    /\ write_log[1].msg.message_id = write_log[2].msg.message_id
    /\ Len(db) = 1

----------------------------------------------------------------------------
(* Properties of stage A.                                                  *)

ProcessAllEnds(t) == pc[t] # "idle" /\ loc[t].in_all /\ pc'[t] = "idle"

(* C8: a process_all call ends only by returning, after the source has     *)
(* reported empty, with the number of messages it processed: a message     *)
(* that fails validation does not end the call, so the valid messages      *)
(* behind it are still processed by the same call.                         *)
C8_ProcessAllIsolatesFailures ==
    [][\A t \in Pods :
          ProcessAllEnds(t) =>
              /\ res'[t].op = "a.process_all"
              /\ res'[t].exc = "none"
              /\ work_queue_depth(AUDIO_STREAM) = 0
              /\ res'[t].n = loc[t].count]_vars

(* The step in which process_one's _validate rejects the message it took.  *)
RejectStep(s) == flog'[s].rejected = flog[s].rejected + 1

(* That step publishes nothing, counts nothing, leaves the store alone,    *)
(* takes the message off the queue and ends the call with the exception.   *)
RejectFrame ==
    \A s \in Pods :
        RejectStep(s) =>
            /\ pubs' = pubs /\ inbox' = inbox
            /\ a_processed_count' = a_processed_count
            /\ db' = db
            /\ work_queues' = [work_queues EXCEPT ![AUDIO_STREAM] = Tail(@)]
            /\ pc'[s] = "idle" /\ res'[s].exc = "ValueError"

(* Each instance has published, or is about to publish, every message it   *)
(* consumed and did not reject, whatever it rejected before; its           *)
(* processed_count is the number it published.                             *)
Publishing(s) == IF pc[s] \in {"pf_lock", "pf_put"} THEN 1 ELSE 0

StageAccounts ==
    \A s \in Pods :
        /\ flog[s].consumed = flog[s].rejected + flog[s].published + Publishing(s)
        /\ a_processed_count[s] = flog[s].published

TakenBy(s) == {k \in 1..Len(clog[AUDIO_STREAM]) : clog[AUDIO_STREAM][k][1] = s}

ValidTakenBy(s) ==
    {clog[AUDIO_STREAM][k][2].message_id :
        k \in {j \in TakenBy(s) : AValidate(clog[AUDIO_STREAM][j][2]) = "ok"}}

PublishedSourcesBy(s) ==
    {pubs[k].msg.source_message_id : k \in {j \in 1..Len(pubs) : pubs[j].by = s}}

ValidAllPublished ==
    \A s \in Pods :
        ValidTakenBy(s) =
            PublishedSourcesBy(s)
                \cup (IF pc[s] = "pf_lock" THEN {loc[s].msg.message_id} ELSE {})

(* No consumed message is on the queue again. *)
NotRequeued ==
    \A k \in 1..Len(clog[AUDIO_STREAM]) :
        \A j \in 1..work_queue_depth(AUDIO_STREAM) :
            work_queues[AUDIO_STREAM][j] # clog[AUDIO_STREAM][k][2]

(* C9: when the message process_one consumed fails validation nothing is   *)
(* published, processed_count does not move, the store is untouched and    *)
(* the message is gone from the source for good; the instance's other      *)
(* calls still publish every valid message they consume.                   *)
C9_RejectedIsLost ==
    [](StageAccounts /\ ValidAllPublished /\ NotRequeued) /\ [][RejectFrame]_vars

(* One instance rejected a message and, in a later process_one call,       *)
(* processed a valid one.                                                  *)
C9_Witness ==
    \E s \in Pods :
        /\ pc[s] = "idle" /\ res[s].op = "a.process_one" /\ res[s].ok
        /\ flog[s].rejected = 1 /\ a_processed_count[s] = 1
        /\ \E j, k \in TakenBy(s) :
              /\ j < k
              /\ AValidate(clog[AUDIO_STREAM][j][2]) # "ok"
              /\ AValidate(clog[AUDIO_STREAM][k][2]) = "ok"

Published == wlog[AUDIO_STREAM]

AllValid == \A k \in 1..Len(Published) : AValidate(Published[k]) = "ok"

Drained ==
    /\ \A t \in Threads : pc[t] = "idle"
    /\ AUDIO_STREAM \in DOMAIN work_queues
    /\ work_queues[AUDIO_STREAM] = <<>>

RECURSIVE SumCounts(_)
SumCounts(S) ==
    IF S = {} THEN 0
    ELSE LET t == CHOOSE x \in S : TRUE IN a_processed_count[t] + SumCounts(S \ {t})

(* C10: once N well-formed audio messages have been published and the pods *)
(* have drained the queue, however their steps interleaved, their          *)
(* processed counts add up to N, the queue depth is 0, and the probe that  *)
(* subscribed to features_a beforehand holds N records, with pairwise      *)
(* distinct source_message_ids: those of the published messages.           *)
C10_CompetingPods ==
    (StageReady /\ AllValid /\ Drained) =>
        LET N     == Len(Published)
            probe == inbox[Subscribers(FEATURES_A)[1]]
        IN  /\ SumCounts(Pods) = N
            /\ work_queue_depth(AUDIO_STREAM) = 0
            /\ Len(probe) = N
            /\ \A j, k \in 1..Len(probe) :
                  j # k => probe[j].source_message_id # probe[k].source_message_id
            /\ {probe[j].source_message_id : j \in 1..Len(probe)}
                  = {Published[j].message_id : j \in 1..N}

(* Two well-formed messages were published and drained, one by each pod.   *)
C10_Witness ==
    /\ StageReady /\ AllValid /\ Drained
    /\ Len(Published) = 2
    /\ \A t \in Pods : a_processed_count[t] = 1

----------------------------------------------------------------------------
(* The whole pipeline, wired as the pipeline fixture wires it: the writer  *)
(* and AlgorithmB are constructed (and so subscribed) before anything is   *)
(* published.  Then the upstream half (the sensor publishing well-formed   *)
(* audio, AlgorithmA.process_all) runs on one thread and the downstream    *)
(* half (AlgorithmB.process_all, DataWriter.flush) on another, at the same *)
(* time.  The first audio message comes from sensor-01 and the later ones  *)
(* from sensor-02, with a timestamp of their own.                          *)
PipelineReady == WriterBuilt /\ b_inbox # 0

NextPipeline ==
    \/ NewDataWriter
    \/ WriterBuilt /\ NewAlgorithmB
    \/ /\ PipelineReady /\ calls.publish_work < MaxPipeAudio
       /\ PublishWork("t1", AUDIO_STREAM,
                      IF calls.publish_work = 0 THEN "valid" ELSE "valid_z")
    \/ PublishWorkPut("t1")
    \/ PipelineReady /\ AProcessAll("t1")
    \/ AProcessAllNext("t1")
    \/ ConsumeWorkGet("t1")
    \/ PipelineReady /\ AProcessOne("t1")
    \/ PipelineReady /\ BProcessOne("t2")
    \/ PipelineReady /\ BProcessAll("t2")
    \/ BProcessAllNext("t2")
    \/ \E t \in Pods : StagePublish(t)
    \/ \E t \in Pods : PublishFanoutPut(t)
    \/ PipelineReady /\ Flush("t2")
    \/ FlushNext("t2")
    \/ FlushWrite("t2")

SpecPipeline == Init /\ [][NextPipeline]_vars

(* Every fan-out consumer subscribed before anything was published. *)
SubscribedFirst ==
    /\ PipelineReady
    /\ ihist[b_inbox].reg_at = 0
    /\ ihist[writer_inboxes[1]].reg_at = 0
    /\ ihist[writer_inboxes[2]].reg_at = 0

(* process_all of both stages and flush have completed and found nothing   *)
(* more to take.                                                           *)
PipelineDrained ==
    /\ \A t \in Threads : pc[t] = "idle"
    /\ work_queue_depth(AUDIO_STREAM) = 0
    /\ inbox[b_inbox] = <<>>
    /\ inbox[writer_inboxes[1]] = <<>> /\ inbox[writer_inboxes[2]] = <<>>

Stored(ft) == {k \in 1..Len(db) : db[k].feature_type = ft}

(* C11: with every consumer subscribed first, once N well-formed audio     *)
(* messages have gone through AlgorithmA.process_all, AlgorithmB           *)
(* .process_all and flush, the store holds exactly N type A records, one   *)
(* per audio message, and exactly N type B records, one per type A record, *)
(* and the audio queue is empty.                                           *)
C11_EndToEnd ==
    (SubscribedFirst /\ PipelineDrained /\ AllValid) =>
        LET N == Len(Published) IN
        /\ Cardinality(Stored("A")) = N
        /\ Cardinality(Stored("B")) = N
        /\ {db[k].source_message_id : k \in Stored("A")}
              = {Published[k].message_id : k \in 1..N}
        /\ {db[k].source_message_id : k \in Stored("B")}
              = {db[k].message_id : k \in Stored("A")}
        /\ work_queue_depth(AUDIO_STREAM) = 0

(* Two audio messages went through the whole pipeline: four records stored. *)
C11_Witness ==
    /\ SubscribedFirst /\ PipelineDrained /\ AllValid
    /\ Len(Published) = 2
    /\ Len(db) = 4
    /\ a_processed_count["t1"] = 2 /\ b_processed_count = 2

----------------------------------------------------------------------------
(* The broker with purge_all: one thread publishes to the audio queue and  *)
(* to features_a, one consumes and asks for the depth, one subscribes      *)
(* probes and purges.                                                      *)
NextPurge ==
    \/ /\ calls.publish_work < MaxPurgeWork
       /\ PublishWork("t1", AUDIO_STREAM, "valid")
    \/ PublishWorkPut("t1")
    \/ PublishFanout("t1", FEATURES_A, FeatureMessage("A", 901 + calls.publish_fanout))
    \/ PublishFanoutPut("t1")
    \/ \E timeout \in {0, 1} : ConsumeWork("t2", AUDIO_STREAM, timeout)
    \/ ConsumeWorkGet("t2")
    \/ ConsumeWorkWait("t2")
    \/ \E q \in QueueNames : DepthCheck("t2", q)
    \/ DepthSize("t2")
    \/ SubscribeFanout(FEATURES_A)
    \/ PurgeAll("t3")

SpecPurge == Init /\ [][NextPurge]_vars

(* The step that is a purge_all. *)
PurgeStep == calls'.purge = calls.purge + 1

PurgeCutsOff ==
    \A i \in 1..Len(ihist) : \A k \in 1..Len(pubs) :
        ihist[i].purges < pubs[k].purges => Copies(i, k) = 0

SincePurge(q) ==
    (Len(wlog[q]) - calls.put_mark[q]) - (Len(clog[q]) - calls.got_mark[q])

RegisteredSincePurge(topic) ==
    {i \in 1..Len(ihist) : ihist[i].topic = topic /\ ihist[i].purges = calls.purge}

CleanAfterPurge ==
    calls.purge > 0 =>
        /\ \A q \in QueueNames : work_queue_depth(q) = SincePurge(q)
        /\ \A topic \in Topics :
              fanout_subscriber_count(topic) = Cardinality(RegisteredSincePurge(topic))

(* The put of a publish_work call that began after the latest purge        *)
(* succeeds and raises the depth by one.                                   *)
PublishAfterPurge ==
    \A t \in Threads :
        (/\ pc[t] = "pw_put" /\ pc'[t] = "idle"
         /\ calls.purge > 0 /\ loc[t].g_purges = calls.purge)
        => /\ res'[t].exc = "none"
           /\ \A q \in QueueNames :
                 q = loc[t].q => work_queue_depth(q)' = work_queue_depth(q) + 1

(* An inbox registered after a purge receives the publishes made on its    *)
(* topic after its registration (and before any further purge).            *)
SubscribeAfterPurge ==
    \A i \in 1..Len(ihist) : \A k \in 1..Len(pubs) :
        (/\ ihist[i].purges > 0 /\ pubs[k].purges = ihist[i].purges
         /\ RegisteredBefore(i, k) /\ pubs[k].done)
        => Copies(i, k) = 1

(* C13: after purge_all the depth of every queue and the subscriber count  *)
(* of every topic are 0, and the broker is usable: a later publish_work    *)
(* raises the depth by one, a later subscribe_fanout followed by a         *)
(* publish_fanout delivers to the new inbox.                               *)
C13_CleanAndUsable ==
    [](CleanAfterPurge /\ SubscribeAfterPurge) /\ [][PublishAfterPurge]_vars

(* One message was put before the purge and one after: the depth is 1; an  *)
(* inbox registered after the purge holds the record published after it.   *)
C13_Witness ==
    /\ calls.purge = 1
    /\ calls.put_mark[AUDIO_STREAM] = 1 /\ Len(wlog[AUDIO_STREAM]) = 2
    /\ work_queue_depth(AUDIO_STREAM) = 1
    /\ fanout_subscriber_count(FEATURES_A) = 1
    /\ \E i \in 1..Len(ihist), k \in 1..Len(pubs) :
          /\ ihist[i].purges = 1 /\ pubs[k].purges = 1 /\ pubs[k].done
          /\ inbox[i] = <<pubs[k].msg>>

----------------------------------------------------------------------------
(* process_one with nothing to take.                                       *)

(* What a caller can observe of the broker, the stages and the store.      *)
SameObservables ==
    /\ \A q \in QueueNames : work_queue_depth(q)' = work_queue_depth(q)
    /\ \A topic \in Topics : fanout_subscriber_count(topic)' = fanout_subscriber_count(topic)
    /\ inbox' = inbox
    /\ pubs' = pubs
    /\ a_processed_count' = a_processed_count
    /\ b_processed_count' = b_processed_count
    /\ db' = db

(* A pod enters AlgorithmA.process_one (not from process_all). *)
AOneBegins(t) ==
    /\ pc[t] = "idle"
    /\ pc'[t] = "cw_get"
    /\ loc'[t].caller = "a_one"
    /\ ~loc'[t].in_all

(* consume_work inside that process_one finds the audio queue empty. *)
AOneFindsEmpty(t) ==
    /\ pc[t] = "cw_get"
    /\ loc[t].caller = "a_one"
    /\ ~loc[t].in_all
    /\ work_queue_depth(AUDIO_STREAM) = 0
    /\ pc'[t] # pc[t]

(* AlgorithmB.process_one runs on an empty inbox (a single step). *)
BOneFindsEmpty(t) ==
    /\ pc[t] = "idle"
    /\ b_inbox # 0
    /\ inbox[b_inbox] = <<>>
    /\ pc'[t] = "idle"
    /\ res'[t] # res[t]
    /\ res'[t].op = "b.process_one"

(* C14: process_one on a stage whose source is empty returns "no input    *)
(* available" (None) and changes nothing: the depth of every work queue,   *)
(* every inbox, the subscriptions, what was published, both                *)
(* processed_count values and the store are the same after each step of    *)
(* the call (entering it, and its return).                                 *)
C14_EmptyProcessOne ==
    [][\A t \in Threads :
          /\ AOneBegins(t) => SameObservables
          /\ AOneFindsEmpty(t) =>
                /\ pc'[t] = "idle"
                /\ res'[t] = Res("a.process_one", "none", 0, FALSE)
                /\ SameObservables
          /\ BOneFindsEmpty(t) =>
                /\ res'[t] = Res("b.process_one", "none", 0, FALSE)
                /\ SameObservables]_vars

(* Both stages have processed one message and then each was asked again,   *)
(* with nothing left to take.                                              *)
C14_Witness ==
    /\ a_processed_count["t1"] = 1
    /\ b_processed_count = 1
    /\ res["t1"] = Res("a.process_one", "none", 0, FALSE)
    /\ res["t2"] = Res("b.process_one", "none", 0, FALSE)
    /\ \A t \in Threads : pc[t] = "idle"

----------------------------------------------------------------------------
(* processed_count and what a stage published.                             *)

(* The stage instances of the pipeline: AlgorithmA of thread t1, and       *)
(* AlgorithmB.                                                             *)
PipeStages == {"t1", "b"}

KindOf(s) == IF s = "b" THEN "b" ELSE "a"

Count(s) == IF s = "b" THEN b_processed_count ELSE a_processed_count[s]

(* The publish_fanout calls of stage s that have begun / have returned. *)
BegunBy(s) == {k \in 1..Len(pubs) : pubs[k].by = s}

ReturnedBy(s) == {k \in BegunBy(s) : pubs[k].done}

(* The messages stage s has taken from its source. *)
TakenFromSource(s) ==
    IF s = "b" THEN (IF b_inbox = 0 THEN 0 ELSE ihist[b_inbox].taken)
    ELSE Cardinality(TakenBy(s))

(* 1 while a call of stage s is between taking a message and the return of *)
(* publish_fanout.                                                         *)
InProcessOne(s) ==
    IF \E t \in Threads : pc[t] \in {"pf_lock", "pf_put"} /\ StageOf(t, loc[t]) = s
    THEN 1 ELSE 0

CountIsPublished ==
    \A s \in PipeStages :
        /\ Count(s) = Cardinality(ReturnedBy(s))
        /\ Cardinality(BegunBy(s)) = Count(s) + (IF \E t \in Threads : pc[t] = "pf_put" /\ StageOf(t, loc[t]) = s THEN 1 ELSE 0)
        /\ TakenFromSource(s) = Count(s) + InProcessOne(s)
        /\ \A k \in BegunBy(s) : pubs[k].topic = OutTopic(KindOf(s))

(* A process_one of stage s completes with a result: one more counted, one *)
(* more publish returned, nothing more taken in that step.                 *)
CountsOne ==
    \A s \in PipeStages :
        Count(s)' # Count(s) =>
            /\ Count(s)' = Count(s) + 1
            /\ Cardinality(ReturnedBy(s))' = Cardinality(ReturnedBy(s)) + 1
            /\ TakenFromSource(s)' = TakenFromSource(s)

ProcessAllReturns(t) ==
    /\ pc[t] # "idle"
    /\ loc[t].in_all
    /\ pc'[t] = "idle"
    /\ res'[t].exc = "none"

ReturnsIncrease ==
    \A t \in Threads :
        ProcessAllReturns(t) =>
            \A s \in PipeStages :
                s = StageOf(t, loc[t]) => res'[t].n = Count(s)' - loc[t].g_count0

----------------------------------------------------------------------------
(* work_queue_depth.                                                       *)

(* The value a work_queue_depth call returns is the count at its last      *)
(* step.                                                                   *)
DepthReturns ==
    \A t \in Threads :
        (pc'[t] = "idle" /\ res'[t] # res[t] /\ res'[t].op = "work_queue_depth"
            /\ res'[t].exc = "none")
        => \E q \in QueueNames : res'[t].n = SincePurge(q)

(* C16: work_queue_depth never raises, and the depth of every queue is the *)
(* number of messages put on it since the last purge_all and not yet       *)
(* consumed: 0 for a queue never touched, one more after each publish_work *)
(* and one less after each consume_work that returned a message.           *)
C16_DepthNeverRaises ==
    /\ \A t \in Threads : res[t].op = "work_queue_depth" => res[t].exc = "none"
    /\ \A q \in QueueNames : work_queue_depth(q) = SincePurge(q)

(* The counting half of C16 on its own, and the calls that do return. *)
DepthCounts ==
    [](\A q \in QueueNames : work_queue_depth(q) = SincePurge(q)) /\ [][DepthReturns]_vars

----------------------------------------------------------------------------
(* Subscriber counts.                                                      *)

(* The inboxes handed out for a topic so far. *)
HandedOut(topic) == {i \in 1..Len(ihist) : ihist[i].topic = topic}

(* A subscribe_fanout(topic) call is the step that hands out a new inbox. *)
SubscribeStep(topic) ==
    /\ Len(ihist') = Len(ihist) + 1
    /\ ihist'[Len(ihist')].topic = topic

CountGrowsPerTopic ==
    /\ \A topic \in Topics :
          SubscribeStep(topic) =>
              /\ fanout_subscriber_count(topic)' = fanout_subscriber_count(topic) + 1
              /\ \A other \in Topics \ {topic} :
                    fanout_subscriber_count(other)' = fanout_subscriber_count(other)
    /\ (Len(ihist') = Len(ihist)) =>
          \A topic \in Topics :
              fanout_subscriber_count(topic)' = fanout_subscriber_count(topic)

(* C17: on the in-memory broker the subscriber count of a topic is the     *)
(* number of subscribe_fanout calls made for that topic: 0 if there was    *)
(* none, one more after each, and unchanged by a subscribe_fanout on       *)
(* another topic and by publishing or reading.                             *)
C17_CountPerTopic ==
    [](\A topic \in Topics : fanout_subscriber_count(topic) = Cardinality(HandedOut(topic)))
    /\ [][CountGrowsPerTopic]_vars

(* features_a was subscribed first, then features_b: one subscriber each. *)
C17_Witness ==
    /\ Len(ihist) = 2
    /\ ihist[1].topic = FEATURES_A /\ ihist[2].topic = FEATURES_B
    /\ fanout_subscriber_count(FEATURES_A) = 1
    /\ fanout_subscriber_count(FEATURES_B) = 1

----------------------------------------------------------------------------
(* The durable adapter against the in-memory broker: a test makes the same *)
(* subscribe_fanout calls on both (and publishes through the in-memory     *)
(* one), then compares fanout_subscriber_count topic by topic.             *)
NextAdapters ==
    \/ \E topic \in Topics : SubscribeBoth(topic)
    \/ \E t \in Pods, topic \in Topics :
          PublishFanout(t, topic, FeatureMessage("A", 901 + calls.publish_fanout))
    \/ \E t \in Pods : PublishFanoutPut(t)
    \/ \E i \in 1..MaxInbox : InboxGet(i)

SpecAdapters == Init /\ [][NextAdapters]_vars

(* C18: after the same subscribe_fanout calls, RealBroker and              *)
(* InMemoryBroker report the same subscriber count for every topic.        *)
C18_SameSubscriberCount ==
    \A topic \in Topics : RealFanoutSubscriberCount(topic) = fanout_subscriber_count(topic)

----------------------------------------------------------------------------
(* consume_work with nothing pending, and the order of the work queue.     *)

(* Thread t is in a top-level consume_work call and takes its next step. *)
GetStep(t) ==
    /\ pc[t] = "cw_get"
    /\ loc[t].caller = "consume_work"
    /\ pc'[t] # "cw_get"

WaitEnds(t) ==
    /\ pc[t] = "cw_wait"
    /\ loc[t].caller = "consume_work"
    /\ pc'[t] = "idle"

ReturnsEmpty(t) == res'[t] = Res("consume_work", "none", 0, FALSE)

ReturnsMessage(t) ==
    /\ res'[t] = Res("consume_work", "none", 0, TRUE)
    /\ \A q \in QueueNames :
          q = loc[t].q =>
              /\ work_queue_depth(q)' = work_queue_depth(q) - 1
              /\ clog'[q] = Append(clog[q], <<t, Head(work_queues[q])>>)

ConsumeOutcome ==
    \A t \in Threads :
        /\ (GetStep(t) /\ work_queue_depth(loc[t].q) = 0 /\ loc[t].timeout = 0) =>
              /\ pc'[t] = "idle"
              /\ ReturnsEmpty(t)
              /\ \A q \in QueueNames : work_queue_depth(q)' = work_queue_depth(q)
        /\ (GetStep(t) /\ work_queue_depth(loc[t].q) = 0 /\ loc[t].timeout > 0) =>
              /\ pc'[t] = "cw_wait"
              /\ res'[t] = res[t]
              /\ \A q \in QueueNames : work_queue_depth(q)' = work_queue_depth(q)
        /\ (GetStep(t) /\ work_queue_depth(loc[t].q) > 0) =>
              /\ pc'[t] = "idle"
              /\ ReturnsMessage(t)
        /\ WaitEnds(t) =>
              \/ /\ ReturnsEmpty(t)
                 /\ \A q \in QueueNames : work_queue_depth(q)' = work_queue_depth(q)
              \/ /\ work_queue_depth(loc[t].q) > 0
                 /\ ReturnsMessage(t)

(* C19: consume_work never raises.  On a queue with nothing pending it     *)
(* returns None at once for timeout 0, and for a positive timeout it waits *)
(* and returns None when the timeout elapses, the depth staying as it was  *)
(* (0 if nothing was published meanwhile); when a message is pending, with *)
(* either timeout, it returns the head and the depth goes down by one.     *)
C19_EmptyConsume ==
    [](\A t \in Threads : res[t].op = "consume_work" => res[t].exc = "none")
    /\ [][ConsumeOutcome]_vars

(* One consumer has returned None from an empty queue while the other,     *)
(* called with a positive timeout, is waiting on it; before that a message *)
(* was published and returned.                                             *)
C19_Witness ==
    /\ pc["t1"] = "cw_wait" /\ loc["t1"].timeout > 0
    /\ pc["t2"] = "idle" /\ res["t2"] = Res("consume_work", "none", 0, FALSE)
    /\ work_queue_depth(AUDIO_STREAM) = 0
    /\ Len(clog[AUDIO_STREAM]) = 1

(* The publish_work call a message came from: the producer builds each     *)
(* message with the next fresh message_id just before the call.            *)
PublishOrder(m) == m.message_id

TailAndHead ==
    \A q \in QueueNames :
        /\ Len(wlog'[q]) > Len(wlog[q]) =>
              /\ q \in DOMAIN work_queues
              /\ work_queues'[q] = Append(work_queues[q], wlog'[q][Len(wlog'[q])])
        /\ Len(clog'[q]) > Len(clog[q]) =>
              /\ clog'[q][Len(clog'[q])][2] = Head(work_queues[q])
              /\ work_queues'[q] = Tail(work_queues[q])

(* C20: publish_work appends at the tail and consume_work removes the      *)
(* head, so the messages consume_work returns, in the order the calls get  *)
(* them, whichever consumer it is, come in the order of the publish_work   *)
(* calls, and each one was published before every message still pending.  *)
C20_Fifo ==
    [](\A q \in QueueNames :
          /\ \A j, k \in 1..Len(clog[q]) :
                j < k => PublishOrder(clog[q][j][2]) < PublishOrder(clog[q][k][2])
          /\ \A j \in 1..Len(clog[q]), k \in 1..work_queue_depth(q) :
                PublishOrder(clog[q][j][2]) < PublishOrder(work_queues[q][k]))
    /\ [][TailAndHead]_vars

(* Three messages were published before any was consumed; the two          *)
(* consumers then took the first two, one each.                            *)
C20_Witness ==
    /\ Len(wlog[AUDIO_STREAM]) = 3
    /\ Len(clog[AUDIO_STREAM]) = 2
    /\ clog[AUDIO_STREAM][1][1] # clog[AUDIO_STREAM][2][1]
    /\ clog[AUDIO_STREAM][1][2] = wlog[AUDIO_STREAM][1]
    /\ work_queue_depth(AUDIO_STREAM) = 1

----------------------------------------------------------------------------
(* The process operations on their own: a test calls AlgorithmA.process    *)
(* and AlgorithmB.process directly on dicts it builds, as the unit tests   *)
(* do (del msg[field], make_audio_message(timestamp=...)).                 *)

(* The dict with the keys K taken from the record `full`. *)
DictOf(K, full) == [k \in K |-> full[k]]

Timestamps == {GoodTimestamp, ZTimestamp, BadTimestamp, "", NoneValue}
Audios == {GoodAudio, OddAudio, NoisyAudio, "", NoneValue}

AInputs ==
    {DictOf(K, [message_id |-> 700, sensor_id |-> "sensor-07",
                timestamp |-> ts, audio_data |-> audio]) :
        K \in SUBSET A_REQUIRED_FIELDS, ts \in Timestamps, audio \in Audios}

BFields == B_REQUIRED_FIELDS \cup {"source_message_id"}

BInputs ==
    {DictOf(K, [message_id |-> 800, source_message_id |-> 700, sensor_id |-> "sensor-07",
                timestamp |-> ts, feature_type |-> ft, features |-> f]) :
        K \in {B_REQUIRED_FIELDS \ {k} : k \in B_REQUIRED_FIELDS} \cup {BFields, BFields \ {"timestamp", "feature_type"}},
        ts \in {GoodTimestamp, BadTimestamp},
        ft \in {"A", "B", "", NoneValue},
        f \in {[spectral_centroid |-> 828], None}}

(* AlgorithmA.process(m) / AlgorithmB.process(m): the exception, or the    *)
(* record built with a fresh uuid4.                                        *)
ProcessCall(t, stage, m) ==
    /\ pc[t] = "idle"
    /\ next_uuid <= MaxProcessCalls
    /\ pc' = [pc EXCEPT ![t] = "p_done"]
    /\ IF Validate(stage, m) = "ok"
       THEN /\ loc' = [loc EXCEPT ![t] = [LocInit EXCEPT !.msg = m, !.caller = stage,
                                                        !.out = Process(stage, m, next_uuid)]]
            /\ res' = [res EXCEPT ![t] = Res("process", "none", 0, TRUE)]
            /\ next_uuid' = next_uuid + 1
       ELSE /\ loc' = [loc EXCEPT ![t] = [LocInit EXCEPT !.msg = m, !.caller = stage]]
            /\ res' = [res EXCEPT ![t] = Res("process", Validate(stage, m), 0, FALSE)]
            /\ UNCHANGED next_uuid
    /\ UNCHANGED <<brokerVars, stageVars, writerVars, calls, wlog, clog, pubs, ihist,
                   write_log, real_fanout_queues, pg_features, apiVars, flog>>

(* The test has looked at the outcome. *)
ProcessDone(t) ==
    /\ pc[t] = "p_done"
    /\ Finish(t, res[t])
    /\ UNCHANGED <<brokerVars, stageVars, writerVars, next_uuid, calls, wlog, clog, pubs,
                   ihist, write_log, real_fanout_queues, pg_features, apiVars, flog>>

NextProcess ==
    \/ \E m \in AInputs : ProcessCall("t1", "a", m)
    \/ \E m \in BInputs : ProcessCall("t1", "b", m)
    \/ ProcessDone("t1")

SpecProcess == Init /\ [][NextProcess]_vars

(* A process call of the stage has just ended on thread t. *)
Processed(t, stage) == pc[t] = "p_done" /\ loc[t].caller = stage

Raised(t, exc) == res[t].exc = exc /\ loc[t].out = None

ReturnedRecord(t) == res[t].exc = "none" /\ loc[t].out # None

(* What claim C21 calls an invalid audio message. *)
LacksOrMalformed(m) ==
    \/ \E k \in {"message_id", "sensor_id", "timestamp", "audio_data"} : ~HasKey(m, k)
    \/ m.audio_data \in {"", NoneValue}
    \/ m.timestamp \notin {GoodTimestamp, ZTimestamp}

C22_BValidation ==
    \A t \in Threads :
        Processed(t, "b") =>
            LET m == loc[t].msg IN
            IF \E k \in {"message_id", "sensor_id", "timestamp", "feature_type", "features"} :
                   ~HasKey(m, k)
            THEN Raised(t, "ValueError")
            ELSE (m.feature_type \in {"B", "", NoneValue}) => Raised(t, "TypeError")

(* The tag is wrong and the timestamp is missing: the missing field wins. *)
C22_Witness ==
    /\ Processed("t1", "b")
    /\ HasKey(loc["t1"].msg, "feature_type")
    /\ loc["t1"].msg.feature_type = "B"
    /\ ~HasKey(loc["t1"].msg, "timestamp")
    /\ Raised("t1", "ValueError")

(* C23: process of Stage-A and of Stage-B raises ValidationError whenever  *)
(* the input's timestamp is not a parsable ISO-8601 string, so a record a  *)
(* stage returns never carries an unparsable timestamp.                    *)
C23_TimestampChecked ==
    \A t \in Threads :
        (pc[t] = "p_done" /\ HasKey(loc[t].msg, "timestamp"))
        => /\ loc[t].msg.timestamp \in {BadTimestamp, "", NoneValue} => Raised(t, "ValueError")
           /\ ReturnedRecord(t) => loc[t].out.timestamp \in {GoodTimestamp, ZTimestamp}

----------------------------------------------------------------------------
(* Lineage.                                                                *)

(* The records published by AlgorithmA / by AlgorithmB so far. *)
OutputsOf(kind) == {pubs[k].msg : k \in {j \in 1..Len(pubs) : KindOf(pubs[j].by) = kind}}

SameOrigin(r, src) ==
    /\ r.source_message_id = src.message_id
    /\ r.sensor_id = src.sensor_id
    /\ r.timestamp = src.timestamp

AudioPublished == {Published[k] : k \in 1..Len(Published)}

(* The audio message a record descends from. *)
DescendsFrom(r, audio) ==
    IF r.feature_type = "A" THEN r.source_message_id = audio.message_id
    ELSE \E a \in OutputsOf("a") :
            r.source_message_id = a.message_id /\ a.source_message_id = audio.message_id

(* C24: every record AlgorithmA publishes has feature_type "A", the        *)
(* message_id of an audio message as source_message_id and that message's  *)
(* sensor_id and timestamp; every record AlgorithmB publishes has          *)
(* feature_type "B", the message_id of a type A record as                  *)
(* source_message_id and that record's sensor_id and timestamp; so every   *)
(* record in the store descends from exactly one audio message and carries *)
(* its sensor_id and timestamp.                                            *)
C24_Lineage ==
    /\ \A r \in OutputsOf("a") :
          r.feature_type = "A" /\ \E audio \in AudioPublished : SameOrigin(r, audio)
    /\ \A r \in OutputsOf("b") :
          r.feature_type = "B" /\ \E a \in OutputsOf("a") : SameOrigin(r, a)
    /\ \A k \in 1..Len(db) :
          /\ \E audio \in AudioPublished : DescendsFrom(db[k], audio)
          /\ \A audio \in AudioPublished :
                DescendsFrom(db[k], audio) =>
                    /\ db[k].sensor_id = audio.sensor_id
                    /\ db[k].timestamp = audio.timestamp

(* The store holds the type B record that descends from the second audio   *)
(* message, the one of sensor-02, next to records of sensor-01.            *)
C24_Witness ==
    /\ Len(Published) = 2
    /\ \E k \in 1..Len(db) :
          /\ db[k].feature_type = "B"
          /\ DescendsFrom(db[k], Published[2])
          /\ db[k].sensor_id = "sensor-02"
          /\ db[k].timestamp = ZTimestamp
    /\ \E k \in 1..Len(db) : db[k].sensor_id = "sensor-01"

----------------------------------------------------------------------------
(* The store and its queries: a test writes feature records of two sensors *)
(* and both types, in any order, and queries with every combination of     *)
(* filters (TestDataWriterQuery).                                          *)
StoreRecord(id) ==
    [message_id |-> id,
     source_message_id |-> id + 1000,
     feature_type |-> IF id % 2 = 1 THEN "A" ELSE "B",
     sensor_id |-> IF id <= 2 THEN "sensor-01" ELSE "sensor-02",
     timestamp |-> CASE id = 1 -> GoodTimestamp
                     [] id = 2 -> EarlyTimestamp
                     [] id = 3 -> ZTimestamp
                     [] id = 4 -> LateTimestamp,
     processed_at |-> "2024-01-15T10:00:01+00:00",
     features |-> IF id % 2 = 1 THEN [spectral_centroid |-> 540]
                  ELSE [classification |-> "speech"]]

StoreIdsInUse == 1..4

QueryFilters ==
    [feature_type : {NoneValue, "A"}, sensor_id : {NoneValue, "sensor-01"},
     start : {NoneValue, GoodTimestamp}, end : {NoneValue, GoodTimestamp}]

NextQuery ==
    \/ NewDataWriter
    \/ \E id \in StoreIdsInUse : Write("t1", StoreRecord(id))
    \/ \E a \in QueryFilters : QueryCall("t1", a)
    \/ QueryDone("t1")

SpecQuery == Init /\ [][NextQuery]_vars

(* A query call has just returned on thread t. *)
Queried(t) == pc[t] = "q_done"

Supplied(v) == v # NoneValue

(* Record r satisfies the filters a, timestamps compared as instants. *)
Matches(r, a) ==
    /\ Supplied(a.feature_type) => r.feature_type = a.feature_type
    /\ Supplied(a.sensor_id) => r.sensor_id = a.sensor_id
    /\ Supplied(a.start) => Instant(r.timestamp) >= Instant(a.start)
    /\ Supplied(a.end) => Instant(r.timestamp) <= Instant(a.end)

(* The same with timestamps compared as strings. *)
MatchesAsStrings(r, a) ==
    /\ Supplied(a.feature_type) => r.feature_type = a.feature_type
    /\ Supplied(a.sensor_id) => r.sensor_id = a.sensor_id
    /\ Supplied(a.start) => StrRank(r.timestamp) >= StrRank(a.start)
    /\ Supplied(a.end) => StrRank(r.timestamp) <= StrRank(a.end)

RowSet(rows) == {rows[k] : k \in 1..Len(rows)}

(* C25: query returns exactly the stored records that satisfy every        *)
(* supplied filter (feature_type equal, sensor_id equal, timestamp at or    *)
(* after start, timestamp at or before end), each once, and all stored     *)
(* records when no filter is supplied.                                     *)
C25_QueryFilters ==
    \A t \in Threads :
        Queried(t) =>
            /\ RowSet(loc[t].rows) = {r \in RowSet(db) : Matches(r, loc[t].args)}
            /\ Len(loc[t].rows) = Cardinality(RowSet(loc[t].rows))
            /\ loc[t].args = NoFilters => loc[t].rows = db

(* What does hold: the same selection with the bounds compared as strings, *)
(* and a store left as it was.                                             *)
QuerySelectsAsStrings ==
    [](\A t \in Threads :
          Queried(t) =>
              /\ RowSet(loc[t].rows) = {r \in RowSet(db) : MatchesAsStrings(r, loc[t].args)}
              /\ Len(loc[t].rows) = Cardinality(RowSet(loc[t].rows))
              /\ loc[t].args = NoFilters => loc[t].rows = db)
    /\ [][\A t \in Threads : (pc[t] = "idle" /\ pc'[t] = "q_done") => db' = db]_vars

-----------------------------------------------------------------------------
(* Both stores under the same use: records written in any order to the     *)
(* in-memory DataWriter and to the PostgreSQL adapter, then queried.       *)
NextStores ==
    \/ NewDataWriter
    \/ \E id \in StoreIdsInUse : Write("t1", StoreRecord(id))
    \/ \E id \in StoreIdsInUse : PgWrite("t1", StoreRecord(id))
    \/ \E a \in QueryFilters : QueryCall("t1", a)
    \/ \E a \in QueryFilters : PgQueryCall("t1", a)
    \/ QueryDone("t1")

SpecStores == Init /\ [][NextStores]_vars

(* The instant of a timestamp as a query returns it: the string written    *)
(* (in-memory store) or PostgreSQL's text form of it.                      *)
When(ts) ==
    IF \E i \in {540, 600, 660} : ts = PgText(i)
    THEN CHOOSE i \in {540, 600, 660} : ts = PgText(i)
    ELSE Instant(ts)

InOrder(rows) ==
    \A j, k \in 1..Len(rows) : j < k => When(rows[j].timestamp) <= When(rows[k].timestamp)

(* C26: the records a query returns are in ascending order of timestamp,   *)
(* whatever order they were written in, from the in-memory DataWriter and   *)
(* from the database adapter alike.                                        *)
C26_QuerySorted == \A t \in Threads : Queried(t) => InOrder(loc[t].rows)

(* What does hold: the database adapter's lists are in order, and the       *)
(* in-memory DataWriter's lists are in the order of the writes.            *)
QueryOrders ==
    \A t \in Threads :
        Queried(t) =>
            /\ loc[t].caller = "pg_query" => InOrder(loc[t].rows)
            /\ loc[t].caller = "query" =>
                   \A j, k \in 1..Len(loc[t].rows) :
                       j < k => \E x, y \in 1..Len(db) :
                                    x < y /\ db[x] = loc[t].rows[j] /\ db[y] = loc[t].rows[k]

(* The fields of a FeatureRecord. *)
FeatureRecordFields ==
    {"message_id", "source_message_id", "feature_type", "sensor_id", "timestamp",
     "processed_at", "features"}

EqualOn(fields, r, w) == \A f \in fields : HasKey(r, f) /\ HasKey(w, f) /\ r[f] = w[f]

(* The records written with success to the store that thread t has just     *)
(* queried.                                                                *)
WrittenTo(t) ==
    {write_log[k].msg : k \in {j \in 1..Len(write_log) :
        /\ write_log[j].ok
        /\ write_log[j].via = (IF loc[t].caller = "pg_query" THEN "pg" ELSE "direct")}}

(* C27: a record written to the store and then queried with no filters      *)
(* comes back equal to the written record in every field, from the          *)
(* in-memory DataWriter and from the database adapter.                      *)
C27_RoundTrip ==
    \A t \in Threads :
        (Queried(t) /\ loc[t].args = NoFilters) =>
            \A w \in WrittenTo(t) :
                \E j \in 1..Len(loc[t].rows) : EqualOn(FeatureRecordFields, loc[t].rows[j], w)

(* What does hold: the in-memory DataWriter returns every field as written; *)
(* the database adapter returns message_id, feature_type, sensor_id and     *)
(* features as written and the same instant in another notation, and        *)
(* neither source_message_id nor processed_at.                             *)
RoundTripPerStore ==
    \A t \in Threads :
        (Queried(t) /\ loc[t].args = NoFilters) =>
            \A w \in WrittenTo(t) :
                \E j \in 1..Len(loc[t].rows) :
                    LET r == loc[t].rows[j] IN
                    IF loc[t].caller = "query"
                    THEN r = w
                    ELSE /\ EqualOn({"message_id", "feature_type", "sensor_id", "features"},
                                    r, w)
                         /\ When(r.timestamp) = Instant(w.timestamp)
                         /\ r.timestamp # w.timestamp
                         /\ ~HasKey(r, "source_message_id")
                         /\ ~HasKey(r, "processed_at")

-----------------------------------------------------------------------------
(* Malformed records: a record without message_id is handed to _write, on  *)
(* an empty store or after valid records, and valid records are written     *)
(* and queried around it                                                    *)
(* (test_datawriter_handles_messages_with_missing_fields_gracefully).       *)
MalformedRecords == {[sensor_id |-> "sensor-01"], [sensor_id |-> "sensor-02"]}

NextMalformed ==
    \/ NewDataWriter
    \/ \E id \in StoreIdsInUse : Write("t1", StoreRecord(id))
    \/ \E m \in MalformedRecords : Write("t1", m)
    \/ QueryCall("t1", NoFilters)
    \/ QueryDone("t1")

SpecMalformed == Init /\ [][NextMalformed]_vars

(* A _write call has just ended; its entry is the last of write_log. *)
WriteEnds == Len(write_log') = Len(write_log) + 1

LastWrite == write_log'[Len(write_log')]

Malformed(m) == ~HasKey(m, "message_id")

(* C28: a write of a record with no message_id leaves the store exactly as *)
(* it was, whatever it held before (an empty store included), and a later   *)
(* write of a valid record not yet stored still succeeds and adds it.       *)
C28_MalformedWriteHarmless ==
    [][WriteEnds =>
          /\ Malformed(LastWrite.msg) => db' = db
          /\ (~Malformed(LastWrite.msg) /\ ~LastWrite.present) =>
                 /\ LastWrite.ok
                 /\ LastWrite.exc = "none"
                 /\ db' = Append(db, LastWrite.msg)]_vars

(* What does hold: the same for a store that holds a record at the call.    *)
MalformedOnNonEmptyHarmless ==
    [][(WriteEnds /\ Malformed(LastWrite.msg) /\ db # <<>>) =>
          (db' = db /\ LastWrite.exc = "KeyError")]_vars

(* On an empty store the record is added although the call raises, and     *)
(* from then on every write, of a valid record too, raises.                 *)
MalformedOnEmptyPoisons ==
    [][WriteEnds =>
          /\ (Malformed(LastWrite.msg) /\ db = <<>>) =>
                 (db' = <<LastWrite.msg>> /\ LastWrite.exc = "KeyError")
          /\ (db # <<>> /\ Malformed(db[1])) =>
                 (db' = db /\ LastWrite.exc = "KeyError")]_vars

-----------------------------------------------------------------------------
(* The durable adapters when the server behind them fails.  Each call finds *)
(* the link in one of three conditions: "up"; "lost" (the connection is     *)
(* gone: pika raises an AMQPConnectionError, psycopg2 an OperationalError); *)
(* "closed_by_broker" (the server closed the channel, as it does when the   *)
(* queue named no longer exists: pika raises ChannelClosedByBroker).        *)
Links == {"up", "lost", "closed_by_broker"}

DbLinks == {"up", "lost"}

(* What the pika channel method called raises. *)
TransportError(link) ==
    CASE link = "up" -> "none"
      [] link = "lost" -> "AMQPConnectionError"
      [] link = "closed_by_broker" -> "ChannelClosedByBroker"

(* What the psycopg2 cursor or connection method called raises. *)
StorageError(link) == IF link = "up" THEN "none" ELSE "OperationalError"

RealBrokerOps ==
    {"publish_work", "consume_work", "work_queue_depth", "subscribe_fanout",
     "publish_fanout", "fanout_subscriber_count", "purge_all", "get_nowait", "empty"}

DbOps == {"write", "query", "clear"}

(* The exception a RealBroker or FanoutQueue operation ends with.           *)
(* FanoutQueue.empty catches ChannelClosedByBroker and returns True;        *)
(* purge_all wraps each queue_purge in `except Exception: pass`;            *)
(* fanout_subscriber_count reads a list and calls nothing; every other      *)
(* operation calls the channel with no handler around the call.             *)
RealBrokerRaises(op, link) ==
    CASE op = "fanout_subscriber_count" -> "none"
      [] op = "purge_all" -> "none"
      [] op = "empty" -> IF TransportError(link) = "ChannelClosedByBroker"
                         THEN "none" ELSE TransportError(link)
      [] OTHER -> TransportError(link)

(* The exception a PostgreSQLDatabase operation ends with: write rolls back *)
(* and re-raises, query and clear have no handler.                          *)
DbRaises(op, link) == StorageError(link)

(* One call of a RealBroker / FanoutQueue operation. *)
RealBrokerCall(t, op, link) ==
    /\ pc[t] = "idle"
    /\ op = "subscribe_fanout" => Len(real_fanout_queues) < MaxInbox
    /\ LET exc == RealBrokerRaises(op, link) IN
       /\ real_fanout_queues' =
              IF op = "subscribe_fanout" /\ exc = "none"
              THEN RealSubscribed(real_fanout_queues, FEATURES_A)
              ELSE real_fanout_queues
       /\ res' = [res EXCEPT ![t] =
                     Res(op, exc,
                         IF op = "fanout_subscriber_count"
                         THEN RealFanoutSubscriberCount(FEATURES_A) ELSE 0,
                         exc = "none")]
    /\ loc' = [loc EXCEPT ![t] = [LocInit EXCEPT !.caller = op, !.args = link]]
    /\ pc' = [pc EXCEPT ![t] = "r_done"]
    /\ UNCHANGED <<brokerVars, stageVars, writerVars, next_uuid, calls, wlog, clog, pubs,
                   ihist, write_log, pg_features, apiVars, flog>>

(* One call of a PostgreSQLDatabase operation. *)
DbCall(t, op, link, message) ==
    /\ pc[t] = "idle"
    /\ LET exc == DbRaises(op, link) IN
       /\ pg_features' =
              CASE exc # "none" -> pg_features
                [] op = "write" -> PgWritten(pg_features, message)
                [] op = "clear" -> <<>>
                [] OTHER -> pg_features
       /\ res' = [res EXCEPT ![t] =
                     Res(op, exc,
                         IF op = "query" /\ exc = "none" THEN Len(pg_features) ELSE 0,
                         IF op = "write" THEN exc = "none" /\ ~PgConflict(pg_features, message)
                         ELSE exc = "none")]
    /\ loc' = [loc EXCEPT ![t] = [LocInit EXCEPT !.caller = op, !.args = link]]
    /\ pc' = [pc EXCEPT ![t] = "r_done"]
    /\ UNCHANGED <<brokerVars, stageVars, writerVars, next_uuid, calls, wlog, clog, pubs,
                   ihist, write_log, real_fanout_queues, apiVars, flog>>

(* The caller has seen the outcome. *)
RealDone(t) ==
    /\ pc[t] = "r_done"
    /\ Finish(t, res[t])
    /\ UNCHANGED <<brokerVars, stageVars, writerVars, next_uuid, calls, wlog, clog, pubs,
                   ihist, write_log, real_fanout_queues, pg_features, apiVars, flog>>

NextFailures ==
    \/ \E op \in RealBrokerOps, link \in Links : RealBrokerCall("t1", op, link)
    \/ \E op \in DbOps, link \in DbLinks, id \in {1, 2} :
          DbCall("t1", op, link, StoreRecord(id))
    \/ RealDone("t1")

SpecFailures == Init /\ [][NextFailures]_vars

(* A call of an adapter operation has just ended on thread t. *)
AdapterCalled(t) == pc[t] = "r_done"

(* The operation talks to the server. *)
ReachesServer(op) == op # "fanout_subscriber_count"

(* C29: when the transport or the storage cannot be reached, every          *)
(* operation of the durable broker adapter and of the database adapter      *)
(* ends with the failure raised to its caller; none swallows it or reports  *)
(* `empty` or success.                                                     *)
C29_FailuresPropagate ==
    \A t \in Threads :
        (AdapterCalled(t) /\ loc[t].args # "up" /\ ReachesServer(loc[t].caller)) =>
            res[t].exc # "none"

(* What does hold: every operation raises the failure, but purge_all and    *)
(* FanoutQueue.empty on a channel the server closed.                        *)
FailuresPropagateButTwo ==
    \A t \in Threads :
        (AdapterCalled(t) /\ loc[t].args # "up" /\ ReachesServer(loc[t].caller)) =>
            \/ res[t].exc # "none"
            \/ loc[t].caller = "purge_all"
            \/ loc[t].caller = "empty" /\ loc[t].args = "closed_by_broker"

-----------------------------------------------------------------------------
(* The REST API (mocks/rest_api.py): GET /features/historical of an app    *)
(* created over the DataWriter's db, called by one client.                  *)
RATE_LIMIT_MAX == 100

VALID_TOKENS == {"test-token", "valid-token"}

(* The Authorization header, split at its first space; both parts empty    *)
(* when the header is absent.                                               *)
Authorizations ==
    {[scheme |-> "", token |-> ""], [scheme |-> "Basic", token |-> "test-token"],
     [scheme |-> "Bearer", token |-> "wrong"], [scheme |-> "Bearer", token |-> "test-token"]}

_authenticate(auth) ==
    IF auth.scheme = "" /\ auth.token = "" THEN 401
    ELSE IF auth.scheme # "Bearer" THEN 401
    ELSE IF auth.token \notin VALID_TOKENS THEN 403
    ELSE 200

(* datetime.fromisoformat gives an offset-aware datetime when the string    *)
(* carries a UTC offset and a naive one when it does not; comparing one of  *)
(* each kind with <, <=, >= raises TypeError.                               *)
Aware(ts) == ts # NaiveTimestamp

Comparable(x, y) == Aware(x) = Aware(y)

(* What two datetimes of one kind are ordered by: the instant, or the wall  *)
(* clock of a naive one (minutes of 2024-01-15).                            *)
Minutes(ts) == IF ts = NaiveTimestamp THEN 630 ELSE Instant(ts)

Reply(status, exc, rows) == [status |-> status, exc |-> exc, rows |-> rows]

(* historical, lines 172-180: the loop over db from record j on.  KeyError  *)
(* and ValueError skip the record; any other exception leaves the handler.  *)
RECURSIVE Selected(_, _, _, _)
Selected(store, start, end, j) ==
    IF j > Len(store) THEN [exc |-> "none", rows |-> <<>>]
    ELSE LET r == store[j]
             rest == Selected(store, start, end, j + 1)
         IN CASE ~HasKey(r, "timestamp") -> rest
              [] r.timestamp = NoneValue -> [exc |-> "AttributeError", rows |-> <<>>]
              [] ~ParsesAsIso(r.timestamp) -> rest
              [] ~Comparable(start, r.timestamp) -> [exc |-> "TypeError", rows |-> <<>>]
              [] OTHER ->
                   IF rest.exc # "none" THEN rest
                   ELSE IF /\ Minutes(start) <= Minutes(r.timestamp)
                           /\ Minutes(r.timestamp) <= Minutes(end)
                        THEN [exc |-> "none", rows |-> <<r>> \o rest.rows]
                        ELSE rest

(* historical, lines 152-182, past authentication and rate limit.  An       *)
(* exception that leaves the handler is answered by Flask with 500.         *)
HistoricalBody(has_db, store, start, end) ==
    IF ~Truthy(start) \/ ~Truthy(end) THEN Reply(400, "none", <<>>)
    ELSE IF ~ParsesAsIso(start) \/ ~ParsesAsIso(end) THEN Reply(400, "none", <<>>)
    ELSE IF ~Comparable(start, end) THEN Reply(500, "TypeError", <<>>)
    ELSE IF Minutes(start) >= Minutes(end) THEN Reply(400, "none", <<>>)
    ELSE IF ~has_db THEN Reply(200, "none", <<>>)
    ELSE LET sel == Selected(store, start, end, 1) IN
         IF sel.exc # "none" THEN Reply(500, sel.exc, <<>>)
         ELSE Reply(200, "none", sel.rows)

(* _rate_limit_ok, lines 110-127, with n requests of the client within the *)
(* window.                                                                  *)
_rate_limit_okInclusive(n) == n <= RATE_LIMIT_MAX

_rate_limit_ok(n) == n < RATE_LIMIT_MAX

(* historical/realtime, first lines: _authenticate, then _rate_limit_ok.    *)
(* The status the request is turned away with, or 200.                      *)
Admit(client, auth) ==
    IF _authenticate(auth) # 200 THEN _authenticate(auth)
    ELSE IF ~_rate_limit_ok(rate_tracker[client]) THEN 429
    ELSE 200

(* _rate_limit_ok, lines 119-126: an admitted request is appended to the    *)
(* client's history, a rejected one is not.                                 *)
RateTracked(client, auth) ==
    IF Admit(client, auth) = 200
    THEN [rate_tracker EXCEPT ![client] = @ + 1]
    ELSE rate_tracker

(* One GET /features/historical. *)
Historical(t, client, auth, start, end) ==
    /\ pc[t] = "idle"
    /\ LET reply == IF Admit(client, auth) # 200 THEN Reply(Admit(client, auth), "none", <<>>)
                    ELSE HistoricalBody(writer_inboxes # <<0, 0>>, db, start, end)
       IN /\ rate_tracker' = RateTracked(client, auth)
          /\ loc' = [loc EXCEPT ![t] =
                        [LocInit EXCEPT !.caller = "historical",
                                        !.args = [client |-> client, auth |-> auth,
                                                  start |-> start, end |-> end],
                                        !.rows = reply.rows,
                                        !.g_db = db]]
          /\ res' = [res EXCEPT ![t] =
                        Res("historical", reply.exc, reply.status, reply.status = 200)]
    /\ pc' = [pc EXCEPT ![t] = "h_done"]
    /\ UNCHANGED <<brokerVars, stageVars, writerVars, next_uuid, calls, wlog, clog, pubs,
                   ihist, write_log, real_fanout_queues, pg_features, api_inboxes, cache,
                   flog>>

(* The client has read the response. *)
HistoricalDone(t) ==
    /\ pc[t] = "h_done"
    /\ Finish(t, res[t])
    /\ UNCHANGED <<brokerVars, stageVars, writerVars, next_uuid, calls, wlog, clog, pubs,
                   ihist, write_log, real_fanout_queues, pg_features, apiVars, flog>>

(* Time passes: the oldest of the client's requests is now older than the   *)
(* rate window (it is dropped from the history at the next request).        *)
WindowPasses(client) ==
    /\ rate_tracker[client] > 0
    /\ rate_tracker' = [rate_tracker EXCEPT ![client] = @ - 1]
    /\ UNCHANGED <<brokerVars, stageVars, writerVars, pc, loc, res, next_uuid, calls, wlog,
                   clog, pubs, ihist, write_log, real_fanout_queues, pg_features,
                   api_inboxes, cache, flog>>

(* create_app, lines 60-65: the app subscribes to features_a, then to       *)
(* features_b, and starts with an empty cache.                              *)
NewApp ==
    /\ api_inboxes = <<0, 0>>
    /\ Len(inbox) + 2 <= MaxInbox
    /\ inbox' = inbox \o <<(<<>>), (<<>>)>>
    /\ fanout' = Registered(Registered(fanout, FEATURES_A, Len(inbox) + 1),
                            FEATURES_B, Len(inbox) + 2)
    /\ ihist' = ihist \o <<NewInboxHist(FEATURES_A, "api"),
                           NewInboxHist(FEATURES_B, "api")>>
    /\ api_inboxes' = <<Len(inbox) + 1, Len(inbox) + 2>>
    /\ cache' = <<>>
    /\ UNCHANGED <<work_queues, stageVars, writerVars, pc, loc, res, next_uuid, calls, wlog,
                   clog, pubs, write_log, real_fanout_queues, pg_features, rate_tracker,
                   flog>>

(* _drain_and_refresh_cache, lines 93-94: the entries at the head of the    *)
(* cache received before the cutoff are dropped.  The cutoff is fixed when  *)
(* the drain begins, so no message of this drain is dropped.                *)
RECURSIVE Evicted(_)
Evicted(c) == IF c # <<>> /\ Head(c).stale THEN Evicted(Tail(c)) ELSE c

CacheFeatures(c) == [k \in 1..Len(c) |-> c[k].msg]

(* _drain_and_refresh_cache, lines 83-91: one inbox.get_nowait() of the     *)
(* loops.  QueueEmpty breaks to the next inbox; after the last one realtime *)
(* answers 200 with the cached messages.                                    *)
RealtimeGet(t, l, c) ==
    LET i == api_inboxes[l.ix] IN
    /\ IF inbox[i] = <<>> THEN
           /\ IF l.ix = Len(api_inboxes)
              THEN /\ pc' = [pc EXCEPT ![t] = "h_done"]
                   /\ loc' = [loc EXCEPT ![t] = [l EXCEPT !.rows = CacheFeatures(c)]]
                   /\ res' = [res EXCEPT ![t] = Res("realtime", "none", 200, TRUE)]
              ELSE /\ Goto(t, "rt_get", [l EXCEPT !.ix = 2])
           /\ cache' = c
           /\ UNCHANGED <<inbox, ihist>>
       ELSE
           /\ inbox' = GetNowait(inbox, i)
           /\ ihist' = [ihist EXCEPT ![i].taken = @ + 1]
           /\ cache' = Append(c, [msg |-> Head(inbox[i]), stale |-> FALSE])
           /\ Goto(t, "rt_get", l)
    /\ UNCHANGED <<work_queues, fanout, stageVars, writerVars, next_uuid, calls, wlog, clog,
                   pubs, write_log, real_fanout_queues, pg_features, api_inboxes, flog>>

(* One GET /features/realtime: turned away with 401, 403 or 429, or the     *)
(* first get_nowait of the drain.                                           *)
Realtime(t, client, auth) ==
    /\ pc[t] = "idle"
    /\ api_inboxes # <<0, 0>>
    /\ rate_tracker' = RateTracked(client, auth)
    /\ LET l == [LocInit EXCEPT !.caller = "realtime", !.ix = 1,
                                !.args = [client |-> client, auth |-> auth,
                                          start |-> NoneValue, end |-> NoneValue]]
       IN IF Admit(client, auth) # 200
          THEN /\ pc' = [pc EXCEPT ![t] = "h_done"]
               /\ loc' = [loc EXCEPT ![t] = l]
               /\ res' = [res EXCEPT ![t] =
                             Res("realtime", "none", Admit(client, auth), FALSE)]
               /\ UNCHANGED <<brokerVars, stageVars, writerVars, next_uuid, calls, wlog,
                              clog, pubs, ihist, write_log, real_fanout_queues,
                              pg_features, api_inboxes, cache, flog>>
          ELSE RealtimeGet(t, l, Evicted(cache))

RealtimeNext(t) ==
    /\ pc[t] = "rt_get"
    /\ RealtimeGet(t, loc[t], cache)
    /\ UNCHANGED rate_tracker

(* Time passes: the oldest cached message not yet older than CACHE_MINUTES  *)
(* now is.                                                                  *)
CacheAges ==
    /\ \E k \in 1..Len(cache) :
           /\ ~cache[k].stale
           /\ \A j \in 1..(k - 1) : cache[j].stale
           /\ cache' = [cache EXCEPT ![k].stale = TRUE]
    /\ UNCHANGED <<brokerVars, stageVars, writerVars, pc, loc, res, next_uuid, calls, wlog,
                   clog, pubs, ihist, write_log, real_fanout_queues, pg_features,
                   rate_tracker, api_inboxes, flog>>

(* The records a test puts in the store: a valid one, one with an           *)
(* unparsable timestamp, one with a timestamp without offset.               *)
HistoryRecords ==
    {StoreRecord(1),
     [message_id |-> 5, feature_type |-> "A", sensor_id |-> "s", timestamp |-> BadTimestamp],
     [message_id |-> 6, feature_type |-> "A", sensor_id |-> "s", timestamp |-> NaiveTimestamp]}

(* The values of start and of end: absent, unparsable, without offset, and  *)
(* two instants.                                                            *)
QueryParams == {NoneValue, BadTimestamp, NaiveTimestamp, EarlyTimestamp, LateTimestamp}

NextHistorical ==
    \/ NewDataWriter
    \/ \E m \in HistoryRecords : Write("t1", m)
    \/ \E auth \in Authorizations, start, end \in QueryParams :
          Historical("t1", "10.0.0.1", auth, start, end)
    \/ HistoricalDone("t1")
    \/ WindowPasses("10.0.0.1")

SpecHistorical == Init /\ [][NextHistorical]_vars

(* A historical request has just been answered on thread t, and it was      *)
(* authenticated and within the rate limit.                                 *)
Answered(t) ==
    /\ pc[t] = "h_done"
    /\ _authenticate(loc[t].args.auth) = 200
    /\ res[t].n # 429

Missing(v) == v = NoneValue

(* start is strictly earlier than end: both parse, can be compared, and     *)
(* are in that order.                                                       *)
StrictlyEarlier(start, end) ==
    /\ ParsesAsIso(start) /\ ParsesAsIso(end)
    /\ Comparable(start, end)
    /\ Minutes(start) < Minutes(end)

MalformedQuery(a) ==
    \/ Missing(a.start) \/ Missing(a.end)
    \/ ~ParsesAsIso(a.start) \/ ~ParsesAsIso(a.end)
    \/ ~StrictlyEarlier(a.start, a.end)

(* Record r has a timestamp that can be compared with the bounds and lies   *)
(* between them.                                                            *)
InWindow(r, a) ==
    /\ HasKey(r, "timestamp")
    /\ ParsesAsIso(r.timestamp)
    /\ Comparable(a.start, r.timestamp)
    /\ Minutes(a.start) <= Minutes(r.timestamp)
    /\ Minutes(r.timestamp) <= Minutes(a.end)

WindowOf(store, a) == SelectSeq(store, LAMBDA r : InWindow(r, a))

(* C30: an authenticated request to the historical endpoint with a          *)
(* malformed query (start or end missing or unparsable, or start not        *)
(* strictly earlier than end) is answered 400, no request ends in an        *)
(* unhandled error, and a well-formed one is answered 200 with the stored   *)
(* records of the window, those whose timestamp cannot be compared skipped. *)
C30_MalformedIs400 ==
    \A t \in Threads :
        Answered(t) =>
            /\ res[t].n # 500
            /\ MalformedQuery(loc[t].args) => res[t].n = 400
            /\ ~MalformedQuery(loc[t].args) =>
                   /\ res[t].n = 200
                   /\ loc[t].rows = WindowOf(loc[t].g_db, loc[t].args)

(* No timestamp without offset among the request's bounds and the stored    *)
(* records.                                                                 *)
AllAware(t) ==
    /\ Aware(loc[t].args.start) /\ Aware(loc[t].args.end)
    /\ \A k \in 1..Len(loc[t].g_db) :
           HasKey(loc[t].g_db[k], "timestamp") => Aware(loc[t].g_db[k].timestamp)

(* What does hold: the same when no timestamp involved lacks an offset; and  *)
(* the only unhandled error is the TypeError of comparing a datetime with   *)
(* offset to one without.                                                   *)
MalformedIs400WhenAware ==
    \A t \in Threads :
        Answered(t) =>
            /\ res[t].n = 500 => res[t].exc = "TypeError" /\ ~AllAware(t)
            /\ AllAware(t) =>
                   /\ MalformedQuery(loc[t].args) => res[t].n = 400
                   /\ ~MalformedQuery(loc[t].args) =>
                          /\ res[t].n = 200
                          /\ loc[t].rows = WindowOf(loc[t].g_db, loc[t].args)

-----------------------------------------------------------------------------
(* The rate limit: two clients send requests to both endpoints of one app,  *)
(* with a valid or an unknown token, while time passes (TestRateLimiting).  *)
AppReady == api_inboxes # <<0, 0>>

RateAuthorizations ==
    {[scheme |-> "Bearer", token |-> "wrong"], [scheme |-> "Bearer", token |-> "test-token"]}

NextRate ==
    \/ NewApp
    \/ \E client \in Clients, auth \in RateAuthorizations : Realtime("t1", client, auth)
    \/ RealtimeNext("t1")
    \/ \E client \in Clients, auth \in RateAuthorizations :
          AppReady /\ Historical("t1", client, auth, EarlyTimestamp, LateTimestamp)
    \/ HistoricalDone("t1")
    \/ \E client \in Clients : WindowPasses(client)

SpecRate == Init /\ [][NextRate]_vars

(* Thread t sends a request in this step. *)
Requests(t) ==
    /\ pc[t] = "idle"
    /\ pc'[t] \in {"h_done", "rt_get"}
    /\ loc'[t].caller \in {"historical", "realtime"}

TurnedAway(t, status) == pc'[t] = "h_done" /\ res'[t].n = status

(* C31: per client and rate window, an authenticated request to either      *)
(* endpoint is accepted and added to the client's history while the history *)
(* holds fewer than RATE_LIMIT_MAX requests, and answered 429 and not added *)
(* once it holds RATE_LIMIT_MAX; no other client's history changes, and no  *)
(* history ever holds more than RATE_LIMIT_MAX requests.                    *)
C31_RateLimit ==
    /\ [](\A c \in Clients : rate_tracker[c] <= RATE_LIMIT_MAX)
    /\ [][\A t \in Threads :
            (Requests(t) /\ _authenticate(loc'[t].args.auth) = 200) =>
                LET c == loc'[t].args.client IN
                /\ \A o \in Clients \ {c} : rate_tracker'[o] = rate_tracker[o]
                /\ rate_tracker[c] < RATE_LIMIT_MAX =>
                       /\ ~TurnedAway(t, 429)
                       /\ rate_tracker'[c] = rate_tracker[c] + 1
                /\ rate_tracker[c] >= RATE_LIMIT_MAX =>
                       /\ TurnedAway(t, 429)
                       /\ rate_tracker'[c] = rate_tracker[c]]_vars

(* One client is answered 429 by the historical endpoint with its history   *)
(* full, while the other client's history is not.                           *)
C31_Witness ==
    \E t \in Threads, c \in Clients :
        /\ pc[t] = "h_done" /\ loc[t].caller = "historical" /\ res[t].n = 429
        /\ loc[t].args.client = c
        /\ rate_tracker[c] = RATE_LIMIT_MAX
        /\ \E o \in Clients : rate_tracker[o] < RATE_LIMIT_MAX

-----------------------------------------------------------------------------
(* C32: whatever way purge_all on one thread interleaves with publish_work  *)
(* or consume_work on another, neither call ends with an exception.         *)
C32_NoRaiseUnderPurge ==
    \A t \in Threads :
        res[t].op \in {"publish_work", "consume_work"} => res[t].exc = "none"

(* What does hold: the only exception is the KeyError of a call whose lock  *)
(* block ran before a purge_all and whose queue lookup ran after it, and a  *)
(* message whose publish_work returned is pending, consumed, or was put     *)
(* before the last purge_all.                                               *)
RaisesOnlyAcrossPurge ==
    /\ \A t \in Threads :
           (res[t].op \in {"publish_work", "consume_work"} /\ res[t].exc # "none") =>
               (res[t].exc = "KeyError" /\ calls.purge > 0)
    /\ \A q \in QueueNames :
           \A k \in 1..Len(wlog[q]) :
               \/ k <= calls.put_mark[q]
               \/ \E j \in 1..Len(clog[q]) : clog[q][j][2] = wlog[q][k]
               \/ /\ q \in DOMAIN work_queues
                  /\ \E j \in 1..Len(work_queues[q]) : work_queues[q][j] = wlog[q][k]

-----------------------------------------------------------------------------
(* Position of publish `tag` in the arrivals of inbox i (0 if absent). *)
ArrivedAt(i, tag) ==
    IF \E k \in 1..Len(ihist[i].log) : ihist[i].log[k] = tag
    THEN CHOOSE k \in 1..Len(ihist[i].log) : ihist[i].log[k] = tag
    ELSE 0

(* C33: two messages published to one topic, by concurrent publishers too,  *)
(* arrive in the same relative order in every inbox that receives both.     *)
C33_SameOrderEverywhere ==
    \A i, j \in 1..Len(ihist) :
        \A a, b \in 1..Len(pubs) :
            (/\ ArrivedAt(i, a) > 0 /\ ArrivedAt(i, b) > 0
             /\ ArrivedAt(j, a) > 0 /\ ArrivedAt(j, b) > 0) =>
                (ArrivedAt(i, a) < ArrivedAt(i, b) <=> ArrivedAt(j, a) < ArrivedAt(j, b))

(* What does hold: two inboxes disagree only about publishes that           *)
(* overlapped (neither had returned when the other took its list of         *)
(* subscribers).                                                            *)
SameOrderUnlessOverlapping ==
    \A i, j \in 1..Len(ihist) :
        \A a, b \in 1..Len(pubs) :
            (/\ ArrivedAt(i, a) > 0 /\ ArrivedAt(i, b) > 0
             /\ ArrivedAt(j, a) > 0 /\ ArrivedAt(j, b) > 0
             /\ (a \in pubs[b].before \/ b \in pubs[a].before)) =>
                (ArrivedAt(i, a) < ArrivedAt(i, b) <=> ArrivedAt(j, a) < ArrivedAt(j, b))

-----------------------------------------------------------------------------
(* Consumers built before a purge_all: AlgorithmB, the DataWriter and the  *)
(* REST app are constructed, Type-A records are published to features_a,    *)
(* the broker is purged at any moment, and the consumers go on reading      *)
(* (process_one, flush, GET /features/realtime).                            *)
Consumers == b_inbox # 0 \/ writer_inboxes # <<0, 0>> \/ api_inboxes # <<0, 0>>

NextOrphans ==
    \/ NewAlgorithmB
    \/ NewDataWriter
    \/ NewApp
    \/ Consumers /\ PublishFanout("t1", FEATURES_A,
                                  FeatureMessage("A", 901 + calls.publish_fanout))
    \/ PublishFanoutPut("t1")
    \/ PurgeAll("t3")
    \/ BProcessOne("t2")
    \/ StagePublish("t2")
    \/ PublishFanoutPut("t2")
    \/ Flush("t2")
    \/ FlushNext("t2")
    \/ FlushWrite("t2")
    \/ /\ rate_tracker["10.0.0.1"] < MaxDrains
       /\ Realtime("t2", "10.0.0.1", [scheme |-> "Bearer", token |-> "test-token"])
    \/ RealtimeNext("t2")
    \/ HistoricalDone("t2")

SpecOrphans == Init /\ [][NextOrphans]_vars

NothingRaised == \A t \in Threads : res[t].exc = "none"

(* C34: a publish_fanout begun after a purge_all delivers to no inbox       *)
(* handed out before that purge, whoever holds it (AlgorithmB, DataWriter,  *)
(* REST app); no call raises; the purge leaves every inbox as it was and    *)
(* each inbox goes on yielding, in order, the deliveries not yet taken.     *)
C34_PurgeOrphansInboxes ==
    /\ [](PurgeCutsOff /\ NothingRaised /\ \A i \in 1..Len(ihist) : InboxHoldsUntaken(i))
    /\ [][PurgeStep => inbox' = inbox]_vars

(* AlgorithmB's inbox, handed out before the purge, got nothing of a        *)
(* publish completed after it, and a message it held at the purge has been  *)
(* taken from it since.                                                     *)
C34_Witness ==
    /\ calls.purge = 1
    /\ \E i \in 1..Len(calls.taken_mark) :
           /\ ihist[i].owner = "b"
           /\ ihist[i].taken > calls.taken_mark[i]
           /\ \E k \in 1..Len(pubs) :
                  /\ pubs[k].topic = ihist[i].topic /\ pubs[k].by # "b"
                  /\ pubs[k].purges = 1 /\ pubs[k].done
                  /\ Copies(i, k) = 0
    /\ NothingRaised

-----------------------------------------------------------------------------
(* The three fan-out consumers side by side, with audio waiting on the work *)
(* queue: Type-A records are published to features_a while AlgorithmB       *)
(* (process_one), the DataWriter (flush) and the REST app (GET realtime)    *)
(* each read their own inbox.                                               *)
NextConsumers ==
    \/ NewAlgorithmB
    \/ NewDataWriter
    \/ NewApp
    \/ /\ calls.publish_work < MaxDrains
       /\ PublishWork("t1", AUDIO_STREAM, "valid")
    \/ PublishWorkPut("t1")
    \/ Consumers /\ PublishFanout("t1", FEATURES_A,
                                  FeatureMessage("A", 901 + calls.publish_fanout))
    \/ PublishFanoutPut("t1")
    \/ BProcessOne("t2")
    \/ StagePublish("t2")
    \/ PublishFanoutPut("t2")
    \/ Flush("t2")
    \/ FlushNext("t2")
    \/ FlushWrite("t2")
    \/ /\ rate_tracker["10.0.0.1"] < MaxDrains
       /\ Realtime("t2", "10.0.0.1", [scheme |-> "Bearer", token |-> "test-token"])
    \/ RealtimeNext("t2")
    \/ HistoricalDone("t2")

SpecConsumers == Init /\ [][NextConsumers]_vars

(* A message is taken from inbox i in this step. *)
TakenFrom(i) == ihist'[i].taken = ihist[i].taken + 1

(* C35: taking a message from one subscriber's inbox (AlgorithmB's          *)
(* process_one, the DataWriter's flush, the REST app's drain) removes the   *)
(* head of that inbox and leaves every other inbox and every work queue as  *)
(* they were.                                                               *)
C35_InboxesIndependent ==
    [][\A i \in 1..Len(ihist) :
          TakenFrom(i) =>
              /\ inbox'[i] = Tail(inbox[i])
              /\ \A j \in 1..Len(inbox) : j # i => inbox'[j] = inbox[j]
              /\ work_queues' = work_queues]_vars

(* One subscriber of features_a has taken a message that another subscriber *)
(* of the topic still holds, while audio waits on the work queue.           *)
C35_Witness ==
    /\ \E i, j \in 1..Len(ihist) :
           /\ i # j /\ ihist[i].topic = ihist[j].topic
           /\ ihist[i].taken = 1 /\ ihist[j].taken = 0
           /\ Len(ihist[i].log) = 1 /\ ihist[j].log = ihist[i].log
           /\ inbox[i] = <<>> /\ Len(inbox[j]) = 1
    /\ work_queue_depth(AUDIO_STREAM) = 1

-----------------------------------------------------------------------------
(* Every operation on the DataWriter's store together: records arrive on    *)
(* the two feature topics and are flushed, _write is called directly with   *)
(* well-formed records and with records lacking message_id, and query reads *)
(* the store while the pods write.                                          *)
NextStoreOps ==
    \/ NewDataWriter
    \/ \E topic \in Topics, id \in FeatureIds :
          WriterBuilt /\ PublishFanout("t3", topic, TopicRecord(topic, id))
    \/ PublishFanoutPut("t3")
    \/ \E id \in FeatureIds : Write("t2", FeatureMessage("A", id))
    \/ \E m \in MalformedRecords : Write("t2", m)
    \/ Flush("t2")
    \/ FlushNext("t2")
    \/ FlushWrite("t2")
    \/ QueryCall("t1", NoFilters)
    \/ QueryDone("t1")

SpecStoreOps == Init /\ [][NextStoreOps]_vars

(* C36: the DataWriter's store is append-only.  Every step leaves the       *)
(* records already stored in place, unaltered and in their order, adding at *)
(* most one at the end, so the size never decreases; a query changes        *)
(* nothing in the store, and the list it returned stays as it was while     *)
(* later writes go on.                                                      *)
C36_AppendOnly ==
    [][/\ Len(db') \in {Len(db), Len(db) + 1}
       /\ SubSeq(db', 1, Len(db)) = db
       /\ \A t \in Threads :
             /\ (pc[t] = "idle" /\ pc'[t] = "q_done") =>
                    (db' = db /\ loc'[t].rows = db)
             /\ (pc[t] = "q_done" /\ pc'[t] = "q_done") =>
                    loc'[t].rows = loc[t].rows]_vars

(* Two records are stored, a write of a message_id already present has been *)
(* skipped, and a query that returned before the second record was written  *)
(* still holds its one-record list.                                         *)
C36_Witness ==
    /\ Len(db) = 2
    /\ \E k \in 1..Len(write_log) : write_log[k].present
    /\ pc["t1"] = "q_done" /\ loc["t1"].rows = <<db[1]>>

-----------------------------------------------------------------------------
(* Redelivery.  A producer publishes Type-A records to features_a, the same *)
(* record possibly twice (at-least-once delivery), while AlgorithmB         *)
(* processes its inbox one message at a time and the DataWriter flushes.    *)
NextRedelivery ==
    \/ NewDataWriter
    \/ NewAlgorithmB
    \/ \E id \in FeatureIds :
          PipelineReady /\ PublishFanout("t1", FEATURES_A, FeatureMessage("A", id))
    \/ PublishFanoutPut("t1")
    \/ BProcessOne("t2")
    \/ StagePublish("t2")
    \/ PublishFanoutPut("t2")
    \/ Flush("t3")
    \/ FlushNext("t3")
    \/ FlushWrite("t3")

SpecRedelivery == Init /\ [][NextRedelivery]_vars

(* The publish_fanout calls AlgorithmB has made, in order. *)
BPublished == SelectSeq(pubs, LAMBDA p : p.by = "b")

(* The same Type-A record has been delivered twice to AlgorithmB's inbox    *)
(* and AlgorithmB has processed both deliveries.                            *)
DeliveredTwice ==
    /\ b_inbox # 0
    /\ Len(ihist[b_inbox].log) = 2
    /\ pubs[ihist[b_inbox].log[1]].msg = pubs[ihist[b_inbox].log[2]].msg
    /\ b_processed_count = 2

(* Everything published has reached the writer's inboxes and a flush has    *)
(* drained them.                                                            *)
AllFlushed ==
    /\ \A t \in Threads : pc[t] = "idle"
    /\ \A k \in 1..Len(pubs) : pubs[k].done
    /\ inbox[writer_inboxes[1]] = <<>> /\ inbox[writer_inboxes[2]] = <<>>

(* C37: nothing but the DataWriter removes duplicates, and it looks at      *)
(* message_id only.  When the same Type-A record is delivered twice to      *)
(* AlgorithmB's inbox, AlgorithmB publishes two Type-B records with         *)
(* different message_ids and the source_message_id of that record, and      *)
(* after flush the store holds one Type-A record and two Type-B records.    *)
C37_DedupAtWriterOnly ==
    DeliveredTwice =>
        /\ Len(BPublished) = 2
        /\ BPublished[1].msg.message_id # BPublished[2].msg.message_id
        /\ \A k \in 1..2 :
              BPublished[k].msg.source_message_id =
                  pubs[ihist[b_inbox].log[k]].msg.message_id
        /\ AllFlushed =>
              /\ Cardinality(Stored("A")) = 1
              /\ Cardinality(Stored("B")) = 2

C37_Witness ==
    /\ DeliveredTwice
    /\ AllFlushed
    /\ Len(db) = 3
    /\ \E j, k \in Stored("B") :
          /\ j # k
          /\ db[j].source_message_id = db[k].source_message_id
          /\ db[j].message_id # db[k].message_id

-----------------------------------------------------------------------------
(* Both stages with well-formed and rejected input.  Audio, some of it      *)
(* missing required fields, is published to the work queue and processed by *)
(* pod t1's AlgorithmA; AlgorithmB, driven by t2, reads what AlgorithmA     *)
(* published and also records a producer (t3) put on features_a with the    *)
(* wrong feature_type.                                                      *)
NextAccounting ==
    \/ NewAlgorithmB
    \/ \E kind \in {"valid", "missing"} :
          /\ b_inbox # 0 /\ calls.publish_work < MaxStageAudio
          /\ PublishWork("t3", AUDIO_STREAM, kind)
    \/ PublishWorkPut("t3")
    \/ /\ b_inbox # 0 /\ calls.publish_fanout < MaxMistyped
       /\ PublishFanout("t3", FEATURES_A, FeatureMessage("B", 901))
    \/ PublishFanoutPut("t3")
    \/ AProcessOne("t1")
    \/ ConsumeWorkGet("t1")
    \/ BProcessOne("t2")
    \/ \E t \in Pods : StagePublish(t)
    \/ \E t \in Pods : PublishFanoutPut(t)

SpecAccounting == Init /\ [][NextAccounting]_vars

(* The messages stage s has removed from its source: the audio queue for a  *)
(* pod's AlgorithmA, the features_a inbox for AlgorithmB.                   *)
Removed(s) ==
    IF s = "b" THEN (IF b_inbox = 0 THEN 0 ELSE ihist[b_inbox].taken)
    ELSE Cardinality(TakenBy(s))

ProcessedCount(s) == IF s = "b" THEN b_processed_count ELSE a_processed_count[s]

(* The errors process_one calls of stage s have raised to their caller. *)
ErrorsRaised(s) == flog[s].rejected

(* A process_one call of stage s has taken a message, built the output and  *)
(* not yet reached `self.processed_count += 1`.                             *)
InHand(s) ==
    \E t \in Threads :
        /\ pc[t] \in {"pf_lock", "pf_put"}
        /\ loc[t].caller \in {"a_one", "b_one"}
        /\ StageOf(t, loc[t]) = s

(* C38: in every reachable state, the number of messages a stage has        *)
(* removed from its source is its processed_count plus the number of errors *)
(* its process_one calls have raised.                                       *)
C38_NoSilentLoss ==
    \A s \in Stages : Removed(s) = ProcessedCount(s) + ErrorsRaised(s)

(* C38 as the code has it: the same with the message a process_one call in  *)
(* progress holds counted in; the two sides are equal whenever no           *)
(* process_one call of the stage is in progress.                            *)
RemovedAccountedFor ==
    \A s \in Stages :
        Removed(s) = ProcessedCount(s) + ErrorsRaised(s) + (IF InHand(s) THEN 1 ELSE 0)

(* Both stages are at rest after each has processed one message and         *)
(* rejected another.                                                        *)
C38_Witness ==
    /\ \A t \in Threads : pc[t] = "idle"
    /\ \A s \in {"t1", "b"} :
          Removed(s) = 2 /\ ProcessedCount(s) = 1 /\ ErrorsRaised(s) = 1

-----------------------------------------------------------------------------
(* Draining.  A producer (t3) publishes audio, pod t1 runs                  *)
(* AlgorithmA.process_all, and t2 runs AlgorithmB.process_all and           *)
(* DataWriter.flush.  Nothing is published to a source while a call is      *)
(* draining it: the producer and process_all of AlgorithmA exclude each     *)
(* other, and AlgorithmA, which feeds features_a, does not run while        *)
(* AlgorithmB or flush does; AlgorithmB, which feeds features_b, and flush  *)
(* run on the same thread.                                                  *)
ARunning == loc["t1"].caller = "a_one"

NextDrain ==
    \/ NewDataWriter
    \/ WriterBuilt /\ NewAlgorithmB
    \/ \E kind \in {"valid", "missing"} :
          /\ PipelineReady /\ ~ARunning /\ calls.publish_work < MaxPipeAudio
          /\ PublishWork("t3", AUDIO_STREAM, kind)
    \/ PublishWorkPut("t3")
    \/ /\ PipelineReady /\ pc["t3"] = "idle" /\ ~BBusy /\ ~FlushRunning
       /\ AProcessAll("t1")
    \/ AProcessAllNext("t1")
    \/ ConsumeWorkGet("t1")
    \/ PipelineReady /\ ~ARunning /\ BProcessAll("t2")
    \/ BProcessAllNext("t2")
    \/ \E t \in Pods : StagePublish(t)
    \/ \E t \in Pods : PublishFanoutPut(t)
    \/ PipelineReady /\ ~ARunning /\ Flush("t2")
    \/ FlushNext("t2")
    \/ FlushWrite("t2")

(* The steps that carry on a call already begun on thread t.  None of them  *)
(* waits for anything (get_nowait, put_nowait, a lock held for a few        *)
(* statements), so a thread that is scheduled takes its next step.          *)
Continue(t) ==
    \/ AProcessAllNext(t)
    \/ ConsumeWorkGet(t)
    \/ BProcessAllNext(t)
    \/ StagePublish(t)
    \/ PublishFanoutPut(t)
    \/ FlushNext(t)
    \/ FlushWrite(t)

SpecDrain ==
    /\ Init /\ [][NextDrain]_vars
    /\ \A t \in Pods : WF_vars(Continue(t))

(* A process_all or flush call is in progress on thread t. *)
Draining(t) == loc[t].in_all \/ loc[t].caller = "flush"

(* The call `op` returns on thread t in this step (it does not raise). *)
Returns(t, op) ==
    /\ pc[t] # "idle" /\ pc'[t] = "idle"
    /\ res'[t].op = op /\ res'[t].exc = "none"

(* C39: process_all and flush terminate when nothing is published to their  *)
(* source while they run.  Every such call ends; process_all returns after  *)
(* count + 1 process_one calls with count at most the number of messages    *)
(* pending when it began, flush goes over its inboxes once, in order, and   *)
(* when either returns its source (work queue, inbox) is empty.             *)
C39_DrainsTerminate ==
    /\ \A t \in Pods : Draining(t) ~> (pc[t] = "idle")
    /\ [][/\ Returns("t1", "a.process_all") =>
                /\ res'["t1"].n + 1 <= loc["t1"].g_pending + 1
                /\ work_queue_depth(AUDIO_STREAM)' = 0
          /\ Returns("t2", "b.process_all") =>
                /\ res'["t2"].n + 1 <= loc["t2"].g_pending + 1
                /\ inbox'[b_inbox] = <<>>
          /\ Returns("t2", "flush") =>
                /\ inbox'[writer_inboxes[1]] = <<>>
                /\ inbox'[writer_inboxes[2]] = <<>>
          /\ (loc["t2"].caller = "flush" /\ loc'["t2"].caller = "flush") =>
                loc'["t2"].ix >= loc["t2"].ix]_vars

(* Both process_all calls have returned 2 and a flush has returned 4, with  *)
(* the audio queue and every inbox left empty.                              *)
C39_Witness ==
    /\ \A t \in Threads : pc[t] = "idle"
    /\ res["t1"] = Res("a.process_all", "none", 2, FALSE)
    /\ res["t2"] = Res("flush", "none", 4, TRUE)
    /\ b_processed_count = 2
    /\ work_queue_depth(AUDIO_STREAM) = 0
    /\ \A i \in 1..Len(inbox) : inbox[i] = <<>>

====
